---- MODULE Spec2Model ----
(***************************************************************************)
(* Model of the synchronization engine of oura-cf (src/src/index.ts):      *)
(* fetchWithRetry, ingestResource, syncData and the OAuth callback.        *)
(* JavaScript runs one task at a time and switches tasks only at an await, *)
(* so every action below is one resumption of a task: the code from one    *)
(* await to the next.                                                      *)
(***************************************************************************)
EXTENDS Integers, Sequences, FiniteSets, TLC

VARIABLES
    fw,         \* one fetchWithRetry call (SpecRetry)
    ing,        \* one ingestResource call (SpecPage)
    sync,       \* syncData's own locals: phase, arguments, summary (SpecSync)
    task,       \* syncData's per-resource async task, by resource name
    now,        \* the wall clock read by Date.now()
    oauth,      \* OAuth tables, callback calls and their clock (SpecAuth)
    tok,        \* tokenCache, the credential row and getOuraAccessToken calls
                \* (SpecToken)
    cat,        \* the KV entry openapi_resources and the
                \* loadOuraResourcesFromOpenApi call (SpecCatalog, SpecSync)
    db,         \* the D1 tables written by saveToD1 and its clock (SpecStore)
    http        \* one request in the fetch handler and what it caused
                \* (SpecHttp); a statement under isReadOnlySql (SpecSql)

vars == <<fw, ing, sync, task, now, oauth, tok, cat, db, http>>

(***************************************************************************)
(* Program constants.                                                      *)
(***************************************************************************)
DefaultMaxRetries == 3
BackoffBaseMs == 250
MaxPages == 1000
HeartrateChunkDays == 29
DefaultChunkDays == 90
StateTtlMinutes == 15
ExpiryMarginSeconds == 60       \* the 60 of lines 1264 and 1328
SafetyMarginSeconds == 60       \* the 60_000 ms of lines 1285 and 1310
DefaultLifetimeSeconds == 3600  \* the 3600000 ms of lines 1317 and 1329
PatLifetimeSeconds == 86400     \* the 86400000 ms of lines 1299 and 1335
MaxSqlLength == 10000           \* MAX_SQL_LENGTH
MaxSqlParams == 100             \* line 396
MaxBackfillDays == 3650         \* MAX_BACKFILL_DAYS
StatsQueries == 4               \* lines 1364-1381: the tables counted
DefaultBackfillDays == 730      \* lines 283 and 287

(***************************************************************************)
(* Bounds of the model.                                                    *)
(***************************************************************************)
MaxPagesServed == 2     \* pages the remote serves per window in SpecSync
MaxClockSteps == 1      \* clock units the clock may advance during one sync
MaxAuthClock == 17      \* minutes the OAuth clock runs
MaxCallbacks == 3       \* /oauth/callback requests in one run
ClockStep == 30         \* seconds between two instants of the token clock
MaxTokClock == 90       \* seconds the token clock runs
MaxTokCalls == 3        \* getOuraAccessToken calls in one run
MaxAuthUpserts == 1     \* credential upserts by /oauth/callback in one run
MaxJobs == 2            \* pairings of syncData and updateTableStats in one run
MaxJobWrites == 2       \* D1 batches one syncData call commits
MaxLoads == 3           \* loadOuraResourcesFromOpenApi calls in one run
MaxSaves == 3           \* saveToD1 calls in one run
MaxStoreClock == 1      \* milliseconds the store's clock runs

NoToken == 0

UnitsPerDay == 2        \* clock units in one day
FirstDay == 400         \* the day the clock starts in

\* syncData's arguments and locals; catalog is resourcesAll; doc is the API
\* description the remote serves during the sync. For the properties:
\* loadError, how the fetch of the description failed, if it did ("none",
\* "reject", "nonok", "invalid").
SyncIdle ==
    [pc |-> "idle", doc |-> [valid |-> FALSE, paths |-> {}], catalog |-> <<>>,
     totalDays |-> 0, offsetDays |-> 0, resourceFilter |-> {}, resources |-> <<>>,
     successful |-> 0, failed |-> 0, totalRequests |-> 0, loadError |-> "none"]

\* The KV entry 'openapi_resources' (held: there is one; list: the array in
\* it).
NoEntry == [held |-> FALSE, list |-> <<>>]

\* One loadOuraResourcesFromOpenApi call: its position, its local out and its
\* result; for the properties, how the KV read ended (read: "hit", "miss",
\* "error"), how the fetch ended (res: "reject", "nonok", "invalid", "ok") and
\* how the KV write ended (put: "ok", "error"), "none": not done; and doc,
\* the body the fetch was answered with.
LoadIdle ==
    [pc |-> "idle", out |-> <<>>, result |-> <<>>, read |-> "none", res |-> "none",
     put |-> "none", doc |-> [valid |-> FALSE, paths |-> {}]]

\* kv: the KV entry; call: the call in flight; loads: calls begun
CatIdle == [kv |-> NoEntry, call |-> LoadIdle, loads |-> 0]

\* The D1 tables saveToD1 writes, each the sequence of its rows in insertion
\* order; clock: the instant strftime('now') reads, in milliseconds; saves:
\* saveToD1 calls made. For the properties: last, the arguments of the latest
\* call; repeated, whether the call before it had the same arguments; and
\* written, for each daily resource and day the values it bound last.
DbIdle ==
    [daily_summaries |-> <<>>, sleep_episodes |-> <<>>,
     heart_rate_samples |-> <<>>, activity_logs |-> <<>>, user_tags |-> <<>>,
     clock |-> 0, saves |-> 0, last |-> <<>>, repeated |-> FALSE,
     written |-> <<>>]

\* No request: the statement of a request body, as the items of its text, the
\* number of its characters and how many of them are surrounding whitespace.
NoSql == [text |-> <<>>, length |-> 0, padding |-> 0]

\* a numeric query parameter: not given, or given with the value Number()
\* makes of its text (finite says it is neither NaN nor an infinity)
Absent == [given |-> FALSE, finite |-> FALSE, n |-> 0]
NotANumber == [given |-> TRUE, finite |-> FALSE, n |-> 0]
Given(n) == [given |-> TRUE, finite |-> TRUE, n |-> n]

NoRequest ==
    [method |-> "GET", path |-> "/", auth |-> "absent", json |-> FALSE,
     sql |-> NoSql, params |-> 0, query |-> "ok", days |-> Absent,
     offset |-> Absent]

\* the arguments syncData is called with (0, 0: not called)
NoSync == [totalDays |-> 0, offsetDays |-> 0]

\* One pairing of syncData with updateTableStats: mode is the caller
\* ("scheduled", "background": /backfill with totalDays <= 1, "synchronous":
\* /backfill otherwise); sync is where syncData is, planned the D1 batches it
\* commits if it returns and left those it has still to commit; stats is where updateTableStats is, asked the SELECTs
\* answered and counted what each of them saw; rows: the batches committed to
\* the store so far; runs: the pairings begun.
JobIdle ==
    [mode |-> "none", sync |-> "idle", planned |-> 0, left |-> 0, rows |-> 0,
     stats |-> "idle", asked |-> 0, counted |-> <<>>, runs |-> 0]

\* One request in the fetch handler: pc is where it waits and route the branch
\* it waits in; status the response; bound and clientId say that env.oura_db
\* and env.OURA_CLIENT_ID are configured. For the properties: what the
\* request has caused so far (limiter calls, store reads and writes, pending
\* states inserted, syncs started and the arguments of the syncData call, the
\* statement prepared) and served, the requests begun.
HttpIdle ==
    [pc |-> "idle", route |-> "none", req |-> NoRequest, status |-> 0,
     bound |-> TRUE, clientId |-> TRUE,
     limiter |-> 0, reads |-> 0, writes |-> 0, states |-> 0, syncs |-> 0,
     prepared |-> <<>>, accepted |-> "none", served |-> 0, started |-> NoSync,
     job |-> JobIdle]

StatePool == {"s1", "s2"}     \* the values crypto.randomUUID() may return

NoExpiry == -1      \* a null expires_at, a missing expires_in

\* the row of oura_oauth_tokens for user 'default' (access_token 0: no row;
\* refresh_token 0: NULL)
NoCred == [access_token |-> 0, refresh_token |-> 0, expires_at |-> NoExpiry]

\* an OuraTokenResponse (refresh_token 0: the field is missing)
NoResponse == [access_token |-> 0, refresh_token |-> 0, expires_in |-> NoExpiry]

CallIdle ==
    [pc |-> "idle", state |-> "s1", found |-> FALSE, age |-> 0, prior |-> FALSE,
     exchanged |-> FALSE, wrote |-> FALSE, outcome |-> "none",
     credBefore |-> NoCred, token |-> NoResponse]

\* clock: Date.now() in minutes; states: table oura_oauth_states, state ->
\* created_at; cred: the row of oura_oauth_tokens (NoCred: no row); call: the
\* /oauth/callback request being handled. For the properties: issued (states
\* ever inserted), consumed (states a callback found), okCount (callbacks that
\* answered 200, per state), made (callbacks begun). rival: a second
\* /oauth/callback request, handled while the first one is suspended.
OauthIdle ==
    [clock |-> 0, states |-> <<>>, cred |-> NoCred, call |-> CallIdle,
     issued |-> {}, consumed |-> {}, okCount |-> [s \in StatePool |-> 0],
     made |-> 0, rival |-> CallIdle]

\* tokenCache (token 0: null)
NoCache == [token |-> 0, expiresAt |-> 0]

\* One getOuraAccessToken call: its position, its locals (refreshToken, set
\* while the POST that carries it is in flight; refreshed; upsertAt: the Date.now() of line 1264) and, for
\* the properties, what it did (reads,
\* writes, exchanges, cacheSets), how the POST of line 1236 ended (answer) and
\* how the call ended (outcome, source, token).
TokCallIdle ==
    [pc |-> "idle", refreshToken |-> 0, refreshed |-> NoResponse, upsertAt |-> 0,
     reads |-> 0, writes |-> 0, exchanges |-> 0, cacheSets |-> 0,
     answer |-> "none", outcome |-> "none", source |-> "none", token |-> 0]

TokSlots == {1, 2}      \* getOuraAccessToken calls that may be in flight

\* clock: Date.now() in seconds; pat: OURA_PAT is set; client: OURA_CLIENT_ID
\* and OURA_CLIENT_SECRET are set; row: the row of oura_oauth_tokens; cache:
\* tokenCache; calls: the calls in flight. For the properties: made (calls
\* begun), upserts (upserts by /oauth/callback), written (the token response
\* of the last upsert).
TokIdle ==
    [clock |-> 0, pat |-> FALSE, client |-> TRUE, row |-> NoCred, cache |-> NoCache,
     calls |-> [k \in TokSlots |-> TokCallIdle], made |-> 0, upserts |-> 0,
     written |-> NoResponse]

(***************************************************************************)
(* HTTP statuses the remote may answer with.                               *)
(***************************************************************************)
Statuses == {200, 204, 302, 400, 404, 428, 429, 430, 499, 500, 503}

Last(s) == s[Len(s)]

Max(a, b) == IF a > b THEN a ELSE b
Min(a, b) == IF a <= b THEN a ELSE b

(***************************************************************************)
(* fetchWithRetry                                                          *)
(***************************************************************************)
\* Response.ok
ResOk(status) == status >= 200 /\ status <= 299

IsRetryableTooWide(status) == status >= 400

\* the negation of line 1088's early return
IsRetryable(status) == status = 429 \/ status >= 500

RetryExhaustedEarly(attempt, maxRetries) == attempt >= maxRetries

\* line 1090
RetryExhausted(attempt, maxRetries) == attempt > maxRetries

\* line 1091
backoffMs(attempt) == BackoffBaseMs * (2 ^ attempt)

\* What one resolved `await fetch` does to the retry loop: "return" hands the
\* response to the caller, "backoff" sleeps and then fetches again.
FwOnResponse(attempt, maxRetries, status) ==
    IF ~IsRetryable(status)
    THEN [next |-> "return", attempt |-> attempt, delay |-> 0]
    ELSE IF RetryExhausted(attempt + 1, maxRetries)
         THEN [next |-> "return", attempt |-> attempt + 1, delay |-> 0]
         ELSE [next |-> "backoff", attempt |-> attempt + 1,
               delay |-> backoffMs(attempt + 1)]

FwIdle ==
    [pc |-> "idle", attempt |-> 0, maxRetries |-> 0, fetches |-> 0,
     statuses |-> <<>>, delays |-> <<>>, result |-> 0]

\* The call: the loop's first `fetch` is issued before the first await.
FwCall(maxRetries) ==
    /\ fw.pc = "idle"
    /\ fw' = [FwIdle EXCEPT !.pc = "fetch", !.maxRetries = maxRetries, !.fetches = 1]
    /\ UNCHANGED <<ing, sync, task, now, oauth, tok, cat, db, http>>

\* `await fetch` resolves with a response.
FwResponse(status) ==
    /\ fw.pc = "fetch"
    /\ LET o == FwOnResponse(fw.attempt, fw.maxRetries, status) IN
       fw' = [fw EXCEPT
                !.statuses = Append(@, status),
                !.attempt = o.attempt,
                !.pc = IF o.next = "return" THEN "returned" ELSE "backoff",
                !.result = IF o.next = "return" THEN status ELSE @,
                !.delays = IF o.next = "backoff" THEN Append(@, o.delay) ELSE @]
    /\ UNCHANGED <<ing, sync, task, now, oauth, tok, cat, db, http>>

\* `await fetch` rejects (network error): nothing catches it in fetchWithRetry.
FwReject ==
    /\ fw.pc = "fetch"
    /\ fw' = [fw EXCEPT !.pc = "threw"]
    /\ UNCHANGED <<ing, sync, task, now, oauth, tok, cat, db, http>>

\* The backoff timer fires and the loop issues the next fetch.
FwTimer ==
    /\ fw.pc = "backoff"
    /\ fw' = [fw EXCEPT !.pc = "fetch", !.fetches = @ + 1]
    /\ UNCHANGED <<ing, sync, task, now, oauth, tok, cat, db, http>>

(***************************************************************************)
(* ingestResource: one call, as a record                                   *)
(*   pc         where the call is suspended: "token" (getOuraAccessToken), *)
(*              "fetch" (the fetch inside fetchWithRetry), "backoff" (its  *)
(*              timer), "save" (saveToD1); or how it ended: "returned",    *)
(*              "threw"                                                    *)
(*   page, nextToken   the loop's locals                                   *)
(*   attempt    fetchWithRetry's local for the request in flight           *)
(*   requests   fetchWithRetry calls made so far (one per page requested)  *)
(*   respToken  next_token of the response whose data is being saved       *)
(*   logged     what the call reported: "none", "token", "http", "json",   *)
(*   safeguard  whether the pagination safeguard warning was emitted       *)
(***************************************************************************)
IngIdle ==
    [pc |-> "idle", paginated |-> FALSE, page |-> 0, nextToken |-> NoToken,
     attempt |-> 0, requests |-> 0, respToken |-> NoToken, logged |-> "none",
     safeguard |-> FALSE]

\* lines 993-996: the locals, then `await getOuraAccessToken(env)`
IngStart(paginated) ==
    [IngIdle EXCEPT !.pc = "token", !.paginated = paginated]

\* lines 1008-1009: build the URL with nextToken and call fetchWithRetry
IngRequest(ic) ==
    [ic EXCEPT !.pc = "fetch", !.attempt = 0, !.requests = @ + 1]

\* lines 996-1005: a rejected getOuraAccessToken is caught and logged, and the
\* call returns without fetching
IngOnToken(ic, tokenOk) ==
    IF tokenOk THEN IngRequest(ic)
    ELSE [ic EXCEPT !.pc = "returned", !.logged = "token"]

\* line 1046
PageLimitExceeded(page) == page > MaxPages

\* a call that follows the token of a resource that is not paginated
IngAfterPageAlwaysPaging(ic, respToken) ==
    LET page == ic.page + 1
        c == [ic EXCEPT !.nextToken = respToken, !.page = page]
    IN  IF respToken = NoToken THEN [c EXCEPT !.pc = "returned"]
        ELSE IF PageLimitExceeded(page)
             THEN [c EXCEPT !.pc = "returned", !.safeguard = TRUE]
             ELSE IngRequest(c)

\* lines 1042-1054, after the page's data is saved
IngAfterPage(ic, respToken) ==
    IF ~ic.paginated THEN [ic EXCEPT !.pc = "returned"]
    ELSE LET page == ic.page + 1
             c == [ic EXCEPT !.nextToken = respToken, !.page = page]
         IN  IF respToken = NoToken THEN [c EXCEPT !.pc = "returned"]
             ELSE IF PageLimitExceeded(page)
                  THEN [c EXCEPT !.pc = "returned", !.safeguard = TRUE]
                  ELSE IngRequest(c)

\* lines 1013-1040: the response fetchWithRetry returned. body.valid: res.json()
\* gave an object; body.data: its data is a non-empty array; body.token: its
\* next_token
IngOnResult(ic, status, body) ==
    IF ~ResOk(status) THEN [ic EXCEPT !.pc = "returned", !.logged = "http"]
    ELSE IF ~body.valid THEN [ic EXCEPT !.pc = "returned", !.logged = "json"]
    ELSE IF body.data THEN [ic EXCEPT !.pc = "save", !.respToken = body.token]
    ELSE IngAfterPage(ic, body.token)

\* line 1009 with fetchWithRetry inlined: one `await fetch` resolves
IngOnResponse(ic, status, body) ==
    LET o == FwOnResponse(ic.attempt, DefaultMaxRetries, status) IN
    IF o.next = "backoff" THEN [ic EXCEPT !.pc = "backoff", !.attempt = o.attempt]
    ELSE IngOnResult([ic EXCEPT !.attempt = o.attempt], status, body)

\* line 1092: the backoff timer fires, line 1087 fetches again
IngOnTimer(ic) == [ic EXCEPT !.pc = "fetch"]

\* line 1039: saveToD1 resolves, or rejects and the rejection leaves the call
IngOnSaved(ic, saved) ==
    IF saved THEN IngAfterPage([ic EXCEPT !.respToken = NoToken], ic.respToken)
    ELSE [ic EXCEPT !.pc = "threw"]

\* a rejected fetch leaves fetchWithRetry and ingestResource uncaught
IngOnReject(ic) == [ic EXCEPT !.pc = "threw"]

Tokens == {1, 2}

NoPage == [page |-> FALSE, token |-> NoToken, data |-> FALSE]

IngVarIdle == [c |-> IngIdle, endless |-> TRUE, last |-> NoPage]

InvalidBody == [valid |-> FALSE, data |-> FALSE, token |-> NoToken]

Bodies ==
    {InvalidBody} \cup [valid : {TRUE}, data : BOOLEAN, token : {NoToken} \cup Tokens]

(***************************************************************************)
(* SpecPage: one ingestResource call against an arbitrary remote.          *)
(* ing.c is the call; ing.endless records that every response so far was a *)
(* success carrying a continuation token, ing.last the last response the   *)
(* call took as a page (a success with a JSON object as its body).         *)
(***************************************************************************)
PageCall(paginated) ==
    /\ ing.c.pc = "idle"
    /\ ing' = [IngVarIdle EXCEPT !.c = IngStart(paginated)]
    /\ UNCHANGED <<fw, sync, task, now, oauth, tok, cat, db, http>>

PageToken(tokenOk) ==
    /\ ing.c.pc = "token"
    /\ ing' = [ing EXCEPT !.c = IngOnToken(@, tokenOk)]
    /\ UNCHANGED <<fw, sync, task, now, oauth, tok, cat, db, http>>

PageResponse(status, body) ==
    /\ ing.c.pc = "fetch"
    /\ ing' = [c |-> IngOnResponse(ing.c, status, body),
               endless |-> /\ ing.endless
                           /\ ResOk(status)
                           /\ body.valid
                           /\ body.token # NoToken,
               last |-> IF ResOk(status) /\ body.valid
                        THEN [page |-> TRUE, token |-> body.token,
                              data |-> body.data]
                        ELSE ing.last]
    /\ UNCHANGED <<fw, sync, task, now, oauth, tok, cat, db, http>>

PageReject ==
    /\ ing.c.pc = "fetch"
    /\ ing' = [ing EXCEPT !.c = IngOnReject(@), !.endless = FALSE]
    /\ UNCHANGED <<fw, sync, task, now, oauth, tok, cat, db, http>>

PageTimer ==
    /\ ing.c.pc = "backoff"
    /\ ing' = [ing EXCEPT !.c = IngOnTimer(@)]
    /\ UNCHANGED <<fw, sync, task, now, oauth, tok, cat, db, http>>

PageSaved(saved) ==
    /\ ing.c.pc = "save"
    /\ ing' = [ing EXCEPT !.c = IngOnSaved(@, saved), !.endless = @ /\ saved]
    /\ UNCHANGED <<fw, sync, task, now, oauth, tok, cat, db, http>>

PageStatuses == {200, 404, 503}

InitPage ==
    /\ fw = FwIdle
    /\ ing = IngVarIdle
    /\ sync = SyncIdle
    /\ task = <<>>
    /\ now = 0
    /\ oauth = OauthIdle
    /\ tok = TokIdle
    /\ cat = CatIdle
    /\ db = DbIdle
    /\ http = HttpIdle

NextPage ==
    \/ \E p \in BOOLEAN : PageCall(p)
    \/ \E ok \in BOOLEAN : PageToken(ok)
    \/ \E s \in PageStatuses, b \in Bodies : PageResponse(s, b)
    \/ PageReject
    \/ PageTimer
    \/ \E ok \in BOOLEAN : PageSaved(ok)

SpecPage == InitPage /\ [][NextPage]_vars

(***************************************************************************)
(* syncData                                                                *)
(* The clock counts units of 1/UnitsPerDay day. Date.now() is read only    *)
(* when a window is built; each read returns the clock, which may have     *)
(* advanced since the read before it.                                      *)
(***************************************************************************)
\* new Date(ms).toISOString().split('T')[0]: the UTC day the instant falls in
isoDate(t) == t \div UnitsPerDay

ClockEnd == FirstDay * UnitsPerDay + UnitsPerDay - 1 + MaxClockSteps

\* the values a Date.now() read may return when the last read returned t
ClockReads(t) == {u \in t..(t + 1) : u <= ClockEnd}

Resource(name, queryMode, paginated) ==
    [resource |-> name, queryMode |-> queryMode, paginated |-> paginated]

PersonalInfo == Resource("personal_info", "none", FALSE)
DailySleep == Resource("daily_sleep", "date", TRUE)
Heartrate == Resource("heartrate", "datetime", TRUE)

(***************************************************************************)
(* loadOuraResourcesFromOpenApi. An API description is the set of the       *)
(* entries of its paths object: prefix and resource are the two parts of   *)
(* the path key ("/v2/usercollection/" + resource), templated says that    *)
(* the key contains "{", get that the entry has a get operation, params    *)
(* are the names of that operation's parameters.                           *)
(***************************************************************************)
Path(prefix, resource, templated, get, params) ==
    [prefix |-> prefix, resource |-> resource, templated |-> templated,
     get |-> get, params |-> params]

\* entries a description may hold
Paths ==
    [DailySleep |-> Path("usercollection", "daily_sleep", FALSE, TRUE,
                         {"start_date", "end_date", "next_token"}),
     Heartrate |-> Path("usercollection", "heartrate", FALSE, TRUE,
                        {"start_datetime", "end_datetime", "next_token"}),
     PersonalInfo |-> Path("usercollection", "personal_info", FALSE, TRUE, {}),
     SleepTime |-> Path("usercollection", "sleep_time", FALSE, TRUE, {}),
     Session |-> Path("usercollection", "session", FALSE, TRUE,
                      {"start_date", "end_date", "start_datetime",
                       "end_datetime", "next_token"}),
     Workout |-> Path("usercollection", "workout", FALSE, TRUE,
                      {"start_datetime", "end_datetime", "next_token"}),
     Document |-> Path("usercollection", "daily_sleep/{document_id}", TRUE, TRUE, {}),
     Sandbox |-> Path("sandbox", "heartrate", FALSE, TRUE,
                      {"start_datetime", "end_datetime", "next_token"}),
     Webhook |-> Path("other", "webhook/subscription", FALSE, TRUE, {}),
     PostOnly |-> Path("usercollection", "tag", FALSE, FALSE, {})]

\* a response body of the description's URL: valid says it parses as JSON
Doc(paths) == [valid |-> TRUE, paths |-> paths]
InvalidDoc == [valid |-> FALSE, paths |-> {}]

\* the descriptions the remote may serve
Docs ==
    [SleepInfo |-> Doc({Paths.DailySleep, Paths.PersonalInfo, Paths.Document,
                        Paths.Sandbox}),
     HeartInfo |-> Doc({Paths.Heartrate, Paths.PersonalInfo, Paths.Webhook}),
     SleepHeart |-> Doc({Paths.DailySleep, Paths.Heartrate, Paths.PostOnly}),
     All |-> Doc({Paths.DailySleep, Paths.Heartrate, Paths.PersonalInfo,
                  Paths.Document, Paths.Sandbox}),
     None |-> Doc({Paths.Webhook}),
     Forced |-> Doc({Paths.SleepTime, Paths.PersonalInfo}),
     Mixed |-> Doc({Paths.Session, Paths.Workout, Paths.SleepTime,
                    Paths.DailySleep})]

\* line 1124
forceDateWindow == {"sleep", "sleep_time", "workout"}

\* an override that replaces whatever the parameters say
QueryModeOfForcing(p) ==
    IF p.resource \in forceDateWindow THEN "date"
    ELSE IF "start_datetime" \in p.params \/ "end_datetime" \in p.params
    THEN "datetime"
    ELSE IF "start_date" \in p.params \/ "end_date" \in p.params
    THEN "date"
    ELSE "none"

\* lines 1145-1153
QueryModeOf(p) ==
    LET byParams ==
            IF "start_datetime" \in p.params \/ "end_datetime" \in p.params
            THEN "datetime"
            ELSE IF "start_date" \in p.params \/ "end_date" \in p.params
            THEN "date"
            ELSE "none"
    IN  IF byParams = "none" /\ p.resource \in forceDateWindow THEN "date"
        ELSE byParams

\* lines 1126-1136: the entries that become resources
Listed(p) ==
    /\ p.prefix = "usercollection"
    /\ ~p.templated
    /\ p.get
    /\ p.resource # ""

\* the order localeCompare puts the resource names in
CollationOrder ==
    <<"daily_sleep", "heartrate", "personal_info", "session", "sleep_time",
      "tag", "workout">>

\* line 1159: out.sort((a, b) => a.resource.localeCompare(b.resource))
SortByResource(rs) ==
    LET names == SelectSeq(CollationOrder,
                           LAMBDA n : \E r \in rs : r.resource = n)
    IN  [i \in 1..Len(names) |-> CHOOSE r \in rs : r.resource = names[i]]

\* lines 1121-1159: an unparsable body gives spec = null and no paths
BuildResources(doc) ==
    LET paths == IF doc.valid THEN doc.paths ELSE {}
    IN  SortByResource({Resource(p.resource, QueryModeOf(p),
                                 "next_token" \in p.params) :
                           p \in {q \in paths : Listed(q)}})

\* lines 1097-1099: the KV read is sent
LoadStart(C) ==
    [C EXCEPT !.loads = @ + 1, !.call = [LoadIdle EXCEPT !.pc = "get"]]

LoadOnGetErrorThrowing(C) ==
    [C EXCEPT !.call = [@ EXCEPT !.pc = "threw", !.read = "error"]]

\* lines 1103-1111: a failed KV read is logged and the description fetched
LoadOnGetError(C) ==
    [C EXCEPT !.call = [@ EXCEPT !.pc = "fetch", !.read = "error"]]

\* lines 1099-1111: the KV read resolves; an array (empty or not) is
\* returned, otherwise the description is fetched
LoadOnGet(C, ok) ==
    IF ~ok THEN LoadOnGetError(C)
    ELSE IF C.kv.held
    THEN [C EXCEPT !.call = [@ EXCEPT !.pc = "returned", !.read = "hit",
                                      !.result = C.kv.list]]
    ELSE [C EXCEPT !.call = [@ EXCEPT !.pc = "fetch", !.read = "miss"]]

\* the ways the fetch of line 1111 ends: it rejects, a non-2xx status, or a
\* 2xx status with a body
FetchResults(docs) ==
    [kind : {"reject", "nonok"}, doc : {InvalidDoc}]
        \cup [kind : {"ok"}, doc : docs \cup {InvalidDoc}]

\* lines 1111-1163: the fetch resolves (the body is read at line 1121); out
\* is built and sorted and the KV write is sent
LoadOnFetch(C, res) ==
    IF res.kind = "reject"
    THEN [C EXCEPT !.call = [@ EXCEPT !.pc = "threw", !.res = "reject"]]
    ELSE IF res.kind = "nonok"
    THEN [C EXCEPT !.call = [@ EXCEPT !.pc = "returned", !.res = "nonok",
                                      !.result = <<>>]]
    ELSE [C EXCEPT !.call = [@ EXCEPT !.pc = "put", !.doc = res.doc,
                                      !.res = IF res.doc.valid THEN "ok"
                                              ELSE "invalid",
                                      !.out = BuildResources(res.doc)]]

LoadOnPutErrorThrowing(C) ==
    [C EXCEPT !.call = [@ EXCEPT !.pc = "threw", !.put = "error"]]

\* lines 1166-1173: a failed KV write is logged and out returned
LoadOnPutError(C) ==
    [C EXCEPT !.call = [@ EXCEPT !.pc = "returned", !.put = "error",
                                 !.result = C.call.out]]

\* lines 1162-1173: the KV write resolves and out is returned
LoadOnPut(C, ok) ==
    IF ~ok THEN LoadOnPutError(C)
    ELSE [C EXCEPT !.kv = [held |-> TRUE, list |-> C.call.out],
                   !.call = [@ EXCEPT !.pc = "returned", !.put = "ok",
                                      !.result = C.call.out]]

LoadGet(ok) ==
    /\ cat.call.pc = "get"
    /\ cat' = LoadOnGet(cat, ok)
    /\ UNCHANGED <<fw, ing, sync, task, now, oauth, tok, db, http>>

LoadFetch(res) ==
    /\ cat.call.pc = "fetch"
    /\ cat' = LoadOnFetch(cat, res)
    /\ UNCHANGED <<fw, ing, sync, task, now, oauth, tok, db, http>>

LoadPut(ok) ==
    /\ cat.call.pc = "put"
    /\ cat' = LoadOnPut(cat, ok)
    /\ UNCHANGED <<fw, ing, sync, task, now, oauth, tok, db, http>>

\* a caller (syncData, /backfill, ...) calls loadOuraResourcesFromOpenApi
CatCall ==
    /\ cat.call.pc \in {"idle", "returned", "threw"}
    /\ cat.loads < MaxLoads
    /\ cat' = LoadStart(cat)
    /\ UNCHANGED <<fw, ing, sync, task, now, oauth, tok, db, http>>

\* line 1164: the entry expires after OPENAPI_CACHE_TTL
KvExpire ==
    /\ cat.kv.held
    /\ cat' = [cat EXCEPT !.kv = NoEntry]
    /\ UNCHANGED <<fw, ing, sync, task, now, oauth, tok, db, http>>

CatalogDocs ==
    {Docs.SleepInfo, Docs.HeartInfo, Docs.SleepHeart, Docs.All, Docs.None,
     Docs.Forced, Docs.Mixed}

InitCatalog ==
    /\ fw = FwIdle
    /\ ing = IngVarIdle
    /\ sync = SyncIdle
    /\ task = <<>>
    /\ now = 0
    /\ oauth = OauthIdle
    /\ tok = TokIdle
    /\ cat = CatIdle
    /\ db = DbIdle
    /\ http = HttpIdle

NextCatalog ==
    \/ CatCall
    \/ \E ok \in BOOLEAN : LoadGet(ok)
    \/ \E res \in FetchResults(CatalogDocs) : LoadFetch(res)
    \/ \E ok \in BOOLEAN : LoadPut(ok)
    \/ KvExpire

SpecCatalog == InitCatalog /\ [][NextCatalog]_vars

(***************************************************************************)
(* saveToD1                                                                *)
(* A raw record is a JSON object: a function from its field names to raw   *)
(* values. Numbers are counted in halves (3 is 1.5), so that Math.round    *)
(* has something to round. An SQL value is <<>> for NULL and <<v>> for the *)
(* value v. One D1 batch is one transaction: an action applies a whole     *)
(* batch.                                                                  *)
(***************************************************************************)
Null == <<>>

Num(v) == [t |-> "number", v |-> v]         \* the finite number v/2
NumStr(v) == [t |-> "string", v |-> v]      \* a string Number() reads as v/2
NonFinite == [t |-> "nan", v |-> 0]         \* NaN, Infinity
Text(s) == [t |-> "text", v |-> s]          \* any other string
Missing == [t |-> "undefined", v |-> 0]     \* undefined or null

\* d.f, undefined when d has no field f
Get(d, f) == IF f \in DOMAIN d THEN d[f] ELSE Missing

\* d?.contributors ?? {}
Contributors(d) ==
    IF "contributors" \in DOMAIN d THEN d.contributors ELSE [f \in {} |-> Missing]

\* Math.round of v/2, in halves
Round(v) == 2 * ((v + 1) \div 2)

toInt(x) == IF x.t \in {"number", "string"} THEN <<Round(x.v)>> ELSE Null

toReal(x) == IF x.t \in {"number", "string"} THEN <<x.v>> ELSE Null

\* x ?? null, for the values bound as they are
OrNull(x) == IF x.t = "undefined" THEN Null ELSE <<x.v>>

\* a ?? b
Coalesce(a, b) == IF a.t = "undefined" THEN b ELSE a

\* the columns each daily resource's statement sets besides day and updated_at
Owned ==
    [daily_readiness |->
        {"readiness_score", "readiness_activity_balance",
         "readiness_body_temperature", "readiness_hrv_balance",
         "readiness_previous_day_activity", "readiness_previous_night_sleep",
         "readiness_recovery_index", "readiness_resting_heart_rate",
         "readiness_sleep_balance"},
     daily_sleep |->
        {"sleep_score", "sleep_deep_sleep", "sleep_efficiency", "sleep_latency",
         "sleep_rem_sleep", "sleep_restfulness", "sleep_timing",
         "sleep_total_sleep"},
     daily_activity |->
        {"activity_score", "activity_steps", "activity_active_calories",
         "activity_total_calories", "activity_meet_daily_targets",
         "activity_move_every_hour", "activity_recovery_time",
         "activity_stay_active", "activity_training_frequency",
         "activity_training_volume"},
     daily_stress |-> {"stress_index"},
     daily_resilience |->
        {"resilience_level", "resilience_contributors_sleep",
         "resilience_contributors_stress"},
     daily_spo2 |-> {"spo2_percentage", "spo2_breathing_disturbance_index"},
     daily_cardiovascular_age |-> {"cv_age_offset"},
     vo2_max |-> {"vo2_max"}]

DailyResources == DOMAIN Owned

\* the columns of the tables (schema.sql)
Columns ==
    [daily_summaries |->
        {"day", "updated_at"} \cup UNION {Owned[r] : r \in DailyResources},
     sleep_episodes |->
        {"id", "day", "start_datetime", "end_datetime", "type", "heart_rate_avg",
         "heart_rate_lowest", "hrv_avg", "breath_avg", "temperature_deviation",
         "deep_duration", "rem_duration", "light_duration", "awake_duration"},
     heart_rate_samples |-> {"timestamp", "bpm", "source"},
     activity_logs |->
        {"id", "type", "start_datetime", "end_datetime", "activity_label",
         "intensity", "calories", "distance", "hr_avg", "mood"},
     user_tags |-> {"id", "day", "tag_type", "comment"}]

\* The values each statement binds, by column; t is strftime('now').
ReadinessValues(d, t) ==
    LET c == Contributors(d) IN
      [day |-> OrNull(Get(d, "day")),
       readiness_score |-> toInt(Get(d, "score")),
       readiness_activity_balance |-> toInt(Get(c, "activity_balance")),
       readiness_body_temperature |-> toInt(Get(c, "body_temperature")),
       readiness_hrv_balance |-> toInt(Get(c, "hrv_balance")),
       readiness_previous_day_activity |-> toInt(Get(c, "previous_day_activity")),
       readiness_previous_night_sleep |-> toInt(Get(c, "previous_night")),
       readiness_recovery_index |-> toInt(Get(c, "recovery_index")),
       readiness_resting_heart_rate |-> toInt(Get(c, "resting_heart_rate")),
       readiness_sleep_balance |-> toInt(Get(c, "sleep_balance")),
       updated_at |-> <<t>>]

SleepValues(d, t) ==
    LET c == Contributors(d) IN
      [day |-> OrNull(Get(d, "day")),
       sleep_score |-> toInt(Get(d, "score")),
       sleep_deep_sleep |-> toInt(Get(c, "deep_sleep")),
       sleep_efficiency |-> toInt(Get(c, "efficiency")),
       sleep_latency |-> toInt(Get(c, "latency")),
       sleep_rem_sleep |-> toInt(Get(c, "rem_sleep")),
       sleep_restfulness |-> toInt(Get(c, "restfulness")),
       sleep_timing |-> toInt(Get(c, "timing")),
       sleep_total_sleep |-> toInt(Get(c, "total_sleep")),
       updated_at |-> <<t>>]

ActivityValues(d, t) ==
    LET c == Contributors(d) IN
      [day |-> OrNull(Get(d, "day")),
       activity_score |-> toInt(Get(d, "score")),
       activity_steps |-> toInt(Get(d, "steps")),
       activity_active_calories |-> toInt(Get(d, "active_calories")),
       activity_total_calories |-> toInt(Get(d, "total_calories")),
       activity_meet_daily_targets |-> toInt(Get(c, "meet_daily_targets")),
       activity_move_every_hour |-> toInt(Get(c, "move_every_hour")),
       activity_recovery_time |-> toInt(Get(c, "recovery_time")),
       activity_stay_active |-> toInt(Get(c, "stay_active")),
       activity_training_frequency |-> toInt(Get(c, "training_frequency")),
       activity_training_volume |-> toInt(Get(c, "training_volume")),
       updated_at |-> <<t>>]

StressValues(d, t) ==
    [day |-> OrNull(Get(d, "day")),
     stress_index |-> toInt(Coalesce(Get(d, "stress_high"), Get(d, "day_summary"))),
     updated_at |-> <<t>>]

ResilienceValues(d, t) ==
    LET c == Contributors(d) IN
      [day |-> OrNull(Get(d, "day")),
       resilience_level |-> OrNull(Get(d, "level")),
       resilience_contributors_sleep |-> toInt(Get(c, "sleep_recovery")),
       resilience_contributors_stress |-> toInt(Get(c, "daytime_recovery")),
       updated_at |-> <<t>>]

Spo2Values(d, t) ==
    LET average ==      \* d.spo2_percentage?.average
            IF "spo2_percentage" \in DOMAIN d
              THEN Get(d.spo2_percentage, "average") ELSE Missing
    IN [day |-> OrNull(Get(d, "day")),
        spo2_percentage |-> toReal(average),
        spo2_breathing_disturbance_index |-> toInt(Get(d, "breathing_disturbance_index")),
        updated_at |-> <<t>>]

CvAgeValues(d, t) ==
    [day |-> OrNull(Get(d, "day")),
     cv_age_offset |-> toInt(Get(d, "vascular_age")),
     updated_at |-> <<t>>]

Vo2Values(d, t) ==
    [day |-> OrNull(Get(d, "day")),
     vo2_max |-> toReal(Get(d, "vo2_max")),
     updated_at |-> <<t>>]

SleepEpisodeValues(d) ==
    LET deviation ==    \* d.readiness?.temperature_deviation ?? d.temperature_deviation
            Coalesce(IF "readiness" \in DOMAIN d
                       THEN Get(d.readiness, "temperature_deviation") ELSE Missing,
                     Get(d, "temperature_deviation"))
    IN
    [id |-> OrNull(Get(d, "id")),
     day |-> OrNull(Get(d, "day")),
     start_datetime |-> OrNull(Get(d, "bedtime_start")),
     end_datetime |-> OrNull(Get(d, "bedtime_end")),
     type |-> OrNull(Get(d, "type")),
     heart_rate_avg |-> toReal(Get(d, "average_heart_rate")),
     heart_rate_lowest |-> toReal(Get(d, "lowest_heart_rate")),
     hrv_avg |-> toReal(Get(d, "average_hrv")),
     breath_avg |-> toReal(Get(d, "average_breath")),
     temperature_deviation |-> toReal(deviation),
     deep_duration |-> toInt(Get(d, "deep_sleep_duration")),
     rem_duration |-> toInt(Get(d, "rem_sleep_duration")),
     light_duration |-> toInt(Get(d, "light_sleep_duration")),
     awake_duration |-> toInt(Get(d, "awake_time"))]

\* typeof d?.timestamp === 'string' ? d.timestamp : null, and not skipped
HasTimestamp(d) == Get(d, "timestamp").t = "text"

HeartRateValues(d) ==
    [timestamp |-> OrNull(Get(d, "timestamp")),
     bpm |-> toInt(Get(d, "bpm")),
     source |-> OrNull(Get(d, "source"))]

WorkoutValues(d) ==
    [id |-> OrNull(Get(d, "id")),
     type |-> <<"workout">>,
     start_datetime |-> OrNull(Get(d, "start_datetime")),
     end_datetime |-> OrNull(Get(d, "end_datetime")),
     activity_label |-> OrNull(Coalesce(Get(d, "activity"), Get(d, "sport"))),
     intensity |-> OrNull(Get(d, "intensity")),
     calories |-> toReal(Get(d, "calories")),
     distance |-> toReal(Get(d, "distance")),
     hr_avg |-> toReal(Get(d, "average_heart_rate"))]

SessionValues(d) ==
    LET average ==      \* d.heart_rate?.average
            IF "heart_rate" \in DOMAIN d THEN Get(d.heart_rate, "average") ELSE Missing
    IN
    [id |-> OrNull(Get(d, "id")),
     type |-> <<"session">>,
     start_datetime |-> OrNull(Get(d, "start_datetime")),
     end_datetime |-> OrNull(Get(d, "end_datetime")),
     activity_label |-> OrNull(Get(d, "type")),
     hr_avg |-> toReal(average),
     mood |-> OrNull(Get(d, "mood"))]

TagValues(d) ==
    LET first ==        \* d.tags?.[0]
            IF "tags" \in DOMAIN d /\ Len(d.tags) > 0 THEN d.tags[1] ELSE Missing
    IN
    [id |-> OrNull(Get(d, "id")),
     day |-> OrNull(Get(d, "day")),
     tag_type |-> OrNull(Coalesce(Get(d, "tag_type_code"), first)),
     comment |-> OrNull(Get(d, "comment"))]

\* the DO UPDATE SET lists of the two statements on activity_logs
LogUpdates ==
    [workout |-> {"start_datetime", "end_datetime", "activity_label",
                  "intensity", "calories", "distance", "hr_avg"},
     session |-> {"start_datetime", "end_datetime", "activity_label",
                  "hr_avg", "mood"}]

\* INSERT OR REPLACE: the conflicting row is deleted and the bound values
\* inserted, every other column NULL.
UpsertReplacing(table, columns, key, values, updates) ==
    LET kept == SelectSeq(table, LAMBDA r : r[key] # values[key]) IN
      Append(kept, [c \in columns |-> IF c \in DOMAIN values THEN values[c] ELSE Null])

\* INSERT with the conflict ignored: a row is added whatever the table holds.
UpsertAppending(table, columns, key, values, updates) ==
    Append(table, [c \in columns |-> IF c \in DOMAIN values THEN values[c] ELSE Null])

\* INSERT INTO table (DOMAIN values) VALUES (values)
\*   ON CONFLICT(key) DO UPDATE SET c = excluded.c for c in updates
Upsert(table, columns, key, values, updates) ==
    IF \E i \in 1..Len(table) : table[i][key] = values[key]
      THEN [i \in 1..Len(table) |->
              IF table[i][key] = values[key]
                THEN [c \in columns |->
                        IF c \in updates THEN values[c] ELSE table[i][c]]
                ELSE table[i]]
      ELSE Append(table,
                  [c \in columns |-> IF c \in DOMAIN values THEN values[c] ELSE Null])

\* env.oura_db.batch(stmts): the statements in order, in one transaction
RECURSIVE batch(_, _, _, _, _)
batch(table, columns, key, stmts, updates) ==
    IF stmts = <<>> THEN table
    ELSE batch(Upsert(table, columns, key, Head(stmts), updates),
               columns, key, Tail(stmts), updates)

\* the values a daily resource binds for the record d
DailyValues(endpoint, d, t) ==
    CASE endpoint = "daily_readiness" -> ReadinessValues(d, t)
      [] endpoint = "daily_sleep" -> SleepValues(d, t)
      [] endpoint = "daily_activity" -> ActivityValues(d, t)
      [] endpoint = "daily_stress" -> StressValues(d, t)
      [] endpoint = "daily_resilience" -> ResilienceValues(d, t)
      [] endpoint = "daily_spo2" -> Spo2Values(d, t)
      [] endpoint = "daily_cardiovascular_age" -> CvAgeValues(d, t)
      [] endpoint = "vo2_max" -> Vo2Values(d, t)

\* one of the eight branches that write daily_summaries
DailyBatch(D, endpoint, data) ==
    [D EXCEPT !.daily_summaries =
        batch(@, Columns.daily_summaries, "day",
              [i \in 1..Len(data) |-> DailyValues(endpoint, data[i], D.clock)],
              Owned[endpoint] \cup {"updated_at"})]

\* The tables after saveToD1(env, endpoint, data) at the instant D.clock. The
\* heartrate branch sends its statements in successive batches of 500, which
\* leave the table as one batch of them all does.
saveToD1(D, endpoint, data) ==
    CASE endpoint \in DailyResources -> DailyBatch(D, endpoint, data)
      [] endpoint = "sleep" ->
           [D EXCEPT !.sleep_episodes =
               batch(@, Columns.sleep_episodes, "id",
                     [i \in 1..Len(data) |-> SleepEpisodeValues(data[i])],
                     Columns.sleep_episodes \ {"id"})]
      [] endpoint = "heartrate" ->
           [D EXCEPT !.heart_rate_samples =
               batch(@, Columns.heart_rate_samples, "timestamp",
                     LET timed == SelectSeq(data, HasTimestamp)
                     IN [i \in 1..Len(timed) |-> HeartRateValues(timed[i])],
                     {"bpm", "source"})]
      [] endpoint = "workout" ->
           [D EXCEPT !.activity_logs =
               batch(@, Columns.activity_logs, "id",
                     [i \in 1..Len(data) |-> WorkoutValues(data[i])],
                     LogUpdates.workout)]
      [] endpoint = "session" ->
           [D EXCEPT !.activity_logs =
               batch(@, Columns.activity_logs, "id",
                     [i \in 1..Len(data) |-> SessionValues(data[i])],
                     LogUpdates.session)]
      [] endpoint = "tag" ->
           [D EXCEPT !.user_tags =
               batch(@, Columns.user_tags, "id",
                     [i \in 1..Len(data) |-> TagValues(data[i])],
                     {"day", "tag_type", "comment"})]
      [] OTHER -> D

\* Raw records the remote may return.
Day1 == Text("2024-01-20")
Day2 == Text("2024-01-21")

Raw ==
    [ReadinessA |->
        [day |-> Day1, score |-> Num(171),
         contributors |-> [activity_balance |-> Num(160), body_temperature |-> NumStr(190),
         hrv_balance |-> NonFinite, previous_night |-> Num(150)]],
     ReadinessB |->
        [day |-> Day1, score |-> Num(174)],
     ReadinessC |->
        [day |-> Day2, score |-> Num(140), contributors |-> [sleep_balance |-> Text("high")]],
     SleepA |->
        [day |-> Day1, score |-> Num(150),
         contributors |-> [deep_sleep |-> Num(120), total_sleep |-> Num(131)]],
     SleepB |->
        [day |-> Day1, score |-> NumStr(153)],
     SleepC |->
        [day |-> Day2, score |-> Num(120), contributors |-> [timing |-> Num(90)]],
     ActivityA |->
        [day |-> Day1, score |-> Num(160), steps |-> Num(16001),
         contributors |-> [stay_active |-> Num(140)]],
     ActivityB |->
        [day |-> Day2, score |-> Num(100), total_calories |-> NumStr(4400)],
     StressA |->
        [day |-> Day1, day_summary |-> Text("normal"), stress_high |-> Num(3600)],
     ResilienceA |->
        [day |-> Day1, level |-> Text("solid"), contributors |-> [sleep_recovery |-> Num(141)]],
     Spo2A |->
        [day |-> Day1, spo2_percentage |-> [average |-> Num(195)],
         breathing_disturbance_index |-> Num(9)],
     CvAgeA |->
        [day |-> Day2, vascular_age |-> Num(70)],
     Vo2A |->
        [day |-> Day2, vo2_max |-> Num(83)],
     EpisodeA |->
        [id |-> Text("e1"), day |-> Day1, type |-> Text("long_sleep"),
         average_heart_rate |-> Num(111), deep_sleep_duration |-> Num(7200),
         readiness |-> [temperature_deviation |-> Num(-1)]],
     EpisodeB |->
        [id |-> Text("e1"), day |-> Day1, type |-> Text("sleep"),
         temperature_deviation |-> Num(1)],
     SampleA |->
        [timestamp |-> Text("2024-01-20T10:00:00Z"), bpm |-> Num(121), source |-> Text("awake")],
     SampleB |->
        [timestamp |-> Text("2024-01-20T10:05:00Z"), bpm |-> Num(130)],
     SampleC |->
        [bpm |-> Num(140), source |-> Text("rest")],
     WorkoutA |->
        [id |-> Text("a1"), activity |-> Text("running"), intensity |-> Text("hard"),
         calories |-> Num(601)],
     SessionA |->
        [id |-> Text("a1"), type |-> Text("meditation"), mood |-> Text("good"),
         heart_rate |-> [average |-> Num(125)]],
     SessionB |->
        [id |-> Text("a2"), type |-> Text("breathing")],
     TagA |->
        [id |-> Text("t1"), day |-> Day1, tags |-> <<Text("coffee")>>, comment |-> Text("late")],
     PersonalInfoA |->
        [id |-> Text("p1"), age |-> Num(80)]]

\* the calls ingestResource may make: a resource and one page of its records
SaveCalls ==
    {<<"daily_readiness", <<Raw.ReadinessA>>>>, <<"daily_readiness", <<Raw.ReadinessB>>>>,
     <<"daily_readiness", <<Raw.ReadinessA, Raw.ReadinessC>>>>, <<"daily_readiness", <<>>>>,
     <<"daily_sleep", <<Raw.SleepA>>>>, <<"daily_sleep", <<Raw.SleepB>>>>,
     <<"daily_sleep", <<Raw.SleepC, Raw.SleepA>>>>,
     <<"daily_activity", <<Raw.ActivityA>>>>, <<"daily_activity", <<Raw.ActivityB>>>>,
     <<"daily_stress", <<Raw.StressA>>>>, <<"daily_resilience", <<Raw.ResilienceA>>>>,
     <<"daily_spo2", <<Raw.Spo2A>>>>, <<"daily_cardiovascular_age", <<Raw.CvAgeA>>>>,
     <<"vo2_max", <<Raw.Vo2A>>>>,
     <<"sleep", <<Raw.EpisodeA>>>>, <<"sleep", <<Raw.EpisodeB>>>>,
     <<"heartrate", <<Raw.SampleA, Raw.SampleC, Raw.SampleB>>>>, <<"heartrate", <<Raw.SampleA>>>>,
     <<"workout", <<Raw.WorkoutA>>>>,
     <<"session", <<Raw.SessionA>>>>, <<"session", <<Raw.SessionB, Raw.SessionA>>>>,
     <<"tag", <<Raw.TagA>>>>,
     <<"personal_info", <<Raw.PersonalInfoA>>>>}

\* the resources that share a table with another resource, and the key
\* column of that table
SharedKey ==
    [r \in DailyResources \cup {"workout", "session"} |->
        IF r \in DailyResources THEN "day" ELSE "id"]

\* written, after the call has bound the records of data in order
RECURSIVE Record(_, _, _, _)
Record(w, endpoint, data, t) ==
    IF data = <<>> \/ endpoint \notin DOMAIN SharedKey THEN w
    ELSE LET v == CASE endpoint = "workout" -> WorkoutValues(Head(data))
                    [] endpoint = "session" -> SessionValues(Head(data))
                    [] OTHER -> DailyValues(endpoint, Head(data), t)
             k == <<endpoint, v[SharedKey[endpoint]]>>
         IN Record([x \in DOMAIN w \cup {k} |-> IF x = k THEN v ELSE w[x]],
                   endpoint, Tail(data), t)

\* saveToD1(env, endpoint, data), its batch committed
Save(endpoint, data) ==
    /\ db.saves < MaxSaves
    /\ db' = [saveToD1(db, endpoint, data) EXCEPT
                !.saves = @ + 1,
                !.last = <<endpoint, data>>,
                !.repeated = (db.last = <<endpoint, data>>),
                !.written = Record(@, endpoint, data, db.clock)]
    /\ UNCHANGED <<fw, ing, sync, task, now, oauth, tok, cat, http>>

\* a millisecond passes
StoreTick ==
    /\ db.clock < MaxStoreClock
    /\ db' = [db EXCEPT !.clock = @ + 1]
    /\ UNCHANGED <<fw, ing, sync, task, now, oauth, tok, cat, http>>

InitStore ==
    /\ fw = FwIdle
    /\ ing = IngVarIdle
    /\ sync = SyncIdle
    /\ task = <<>>
    /\ now = 0
    /\ oauth = OauthIdle
    /\ tok = TokIdle
    /\ cat = CatIdle
    /\ db = DbIdle
    /\ http = HttpIdle

NextStore ==
    \/ \E c \in SaveCalls : Save(c[1], c[2])
    \/ StoreTick

SpecStore == InitStore /\ [][NextStore]_vars

(***************************************************************************)
(* isReadOnlySql                                                           *)
(* A statement's text is a sequence of items: an item is a run of word     *)
(* characters ([A-Za-z0-9_], so that two adjacent word items read as one   *)
(* longer word), a whitespace character, or a piece of punctuation.        *)
(***************************************************************************)
MaxSqlItems == 3        \* items in a statement under isReadOnlySql

Whitespace == {" ", "nl"}

\* the runs of word characters in the statements of the model
WordItems ==
    {"select", "SELECT", "with", "insert", "delete", "drop", "DROP", "pragma",
     "oura_oauth_tokens", "Oura_OAuth_States", "daily_summaries", "x",
     "from", "table", "where", "day", "commit", "BEGIN", "rollback"}

\* the items the statements of SpecSql are built from
SqlItems ==
    {"select", "SELECT", "with", "insert", "delete", "drop", "DROP", "pragma",
     "oura_oauth_tokens", "Oura_OAuth_States", "daily_summaries", "x",
     "commit", " ", "nl", ";", "--", "/*", "*/", "*"}

\* statements of the documentation and of the tests
SqlSamples ==
    [PlainSelect |-> <<"SELECT", " ", "*", " ", "from", " ", "daily_summaries">>,
     DropTable |-> <<"DROP", " ", "table", " ", "daily_summaries">>,
     TokenSelect |-> <<"SELECT", " ", "*", " ", "from", " ", "oura_oauth_tokens">>,
     Commented |-> <<"--", "drop", ";", "nl", "select", "nl", "*", " ", "from",
                     " ", "daily_summaries", " ">>,
     TwoStatements |-> <<"select", " ", "x", ";", "delete", " ", "from", " ",
                         "daily_summaries">>,
     Subquery |-> <<"with", " ", "x", " ", "select", " ", "*", " ", "from", " ",
                    "Oura_OAuth_States">>,
     Transaction |-> <<"select", " ", "BEGIN", " ", "from", " ",
                       "daily_summaries", " ", "where", " ", "rollback">>]

\* the /i flag: the item in lower case
Lower(item) ==
    CASE item = "SELECT" -> "select"
      [] item = "DROP" -> "drop"
      [] item = "Oura_OAuth_States" -> "oura_oauth_states"
      [] item = "BEGIN" -> "begin"
      [] OTHER -> item

\* s.trimStart()
RECURSIVE trimStart(_)
trimStart(s) ==
    IF s # <<>> /\ Head(s) \in Whitespace THEN trimStart(Tail(s)) ELSE s

\* s.trim()
RECURSIVE trimEnd(_)
trimEnd(s) ==
    IF s # <<>> /\ s[Len(s)] \in Whitespace
      THEN trimEnd(SubSeq(s, 1, Len(s) - 1)) ELSE s

\* s.indexOf(item), counted from 1; 0 stands for -1
indexOf(s, item) ==
    IF \E i \in 1..Len(s) : s[i] = item
      THEN CHOOSE i \in 1..Len(s) : s[i] = item /\ \A j \in 1..(i - 1) : s[j] # item
      ELSE 0

RECURSIVE stripLeadingSqlComments(_)
stripLeadingSqlComments(sql) ==
    LET trimmed == trimStart(sql) IN
      IF trimmed # <<>> /\ Head(trimmed) = "--"
        THEN IF indexOf(trimmed, "nl") = 0 THEN <<>>
             ELSE stripLeadingSqlComments(
                      SubSeq(trimmed, indexOf(trimmed, "nl") + 1, Len(trimmed)))
      ELSE IF trimmed # <<>> /\ Head(trimmed) = "/*"
        THEN IF indexOf(trimmed, "*/") = 0 THEN <<>>
             ELSE stripLeadingSqlComments(
                      SubSeq(trimmed, indexOf(trimmed, "*/") + 1, Len(trimmed)))
      ELSE trimmed

\* s.replace(/\s+/g, ' ')
RECURSIVE collapse(_)
collapse(s) ==
    IF s = <<>> THEN <<>>
    ELSE IF Head(s) \in Whitespace
      THEN <<" ">> \o collapse(trimStart(s))
      ELSE <<Head(s)>> \o collapse(Tail(s))

\* \b on both sides of the item at i
WordBounded(s, i) ==
    /\ i = 1 \/ s[i - 1] \notin WordItems
    /\ i = Len(s) \/ s[i + 1] \notin WordItems

\* /\bword\b/i.test(s)
TestWord(s, word) ==
    \E i \in 1..Len(s) : Lower(s[i]) = word /\ WordBounded(s, i)

\* line 1183
MutationKeywords ==
    {"insert", "update", "delete", "drop", "alter", "create", "replace",
     "vacuum", "pragma", "attach", "detach"}

\* isReadOnlySql without its test for ';'
isReadOnlySqlManyStatements(sql) ==
    LET normalized == trimEnd(trimStart(collapse(stripLeadingSqlComments(sql)))) IN
      /\ sql # <<>>
      /\ normalized # <<>>
      /\ Lower(Head(normalized)) \in {"select", "with"}
      /\ Len(normalized) = 1 \/ normalized[2] \notin WordItems
      /\ ~TestWord(normalized, "oura_oauth_tokens")
      /\ ~TestWord(normalized, "oura_oauth_states")
      /\ ~\E k \in MutationKeywords : TestWord(normalized, k)

isReadOnlySql(sql) ==
    LET normalized == trimEnd(trimStart(collapse(stripLeadingSqlComments(sql)))) IN
      /\ sql # <<>>
      /\ normalized # <<>>
      /\ Lower(Head(normalized)) \in {"select", "with"}
      /\ Len(normalized) = 1 \/ normalized[2] \notin WordItems
      /\ \A i \in 1..Len(normalized) : normalized[i] # ";"
      /\ ~TestWord(normalized, "oura_oauth_tokens")
      /\ ~TestWord(normalized, "oura_oauth_states")
      /\ ~\E k \in MutationKeywords : TestWord(normalized, k)

\* the statements of at most n items
RECURSIVE Statements(_)
Statements(n) ==
    IF n = 0 THEN {<<>>}
    ELSE LET shorter == Statements(n - 1) IN
           shorter \cup {Append(s, item) : s \in shorter, item \in SqlItems}

\* isReadOnlySql(sql) is evaluated
SqlTest ==
    /\ http.accepted = "none"
    /\ http' = [http EXCEPT
                  !.accepted = IF isReadOnlySql(http.req.sql.text) THEN "yes" ELSE "no"]
    /\ UNCHANGED <<fw, ing, sync, task, now, oauth, tok, cat, db>>

InitSql ==
    /\ fw = FwIdle
    /\ ing = IngVarIdle
    /\ sync = SyncIdle
    /\ task = <<>>
    /\ now = 0
    /\ oauth = OauthIdle
    /\ tok = TokIdle
    /\ cat = CatIdle
    /\ db = DbIdle
    /\ \E s \in Statements(MaxSqlItems) \cup {SqlSamples[n] : n \in DOMAIN SqlSamples} :
          http = [HttpIdle EXCEPT !.req.sql.text = s]

NextSql == SqlTest

SpecSql == InitSql /\ [][NextSql]_vars

(***************************************************************************)
(* The fetch handler (lines 71-523). One request is followed from its      *)
(* arrival to its response; it waits at the rate limiter, at the body, at  *)
(* the store, at the token exchange and at syncData.                       *)
(***************************************************************************)
MaxRequests == 2        \* requests in one run

OpenPaths == {"/health", "/favicon.ico", "/favicon.svg", "/oauth/callback"}

HttpPaths ==
    OpenPaths \cup {"/oauth/start", "/backfill", "/api/daily_summaries",
                    "/api/sql", "/api/stats", "/", "/other"}

\* the statements of the requests: length counts the characters of body.sql,
\* padding those of them that trim() removes
HttpStatements ==
    {[text |-> SqlSamples[n], length |-> l + p, padding |-> p] :
        n \in {"PlainSelect", "DropTable", "TokenSelect"},
        l \in {40, MaxSqlLength, MaxSqlLength + 1}, p \in {0, 1}}

\* a request; query is what the search parameters of /oauth/callback hold,
\* days and offset the parameters of /backfill ("" when absent)
Request(method, path, auth) ==
    [NoRequest EXCEPT !.method = method, !.path = path, !.auth = auth]

\* the values of ?days= and ?offset_days= tried
BackfillParams ==
    {Absent, NotANumber, Given(-1), Given(0), Given(1), Given(2), Given(MaxBackfillDays),
     Given(MaxBackfillDays + 1)}

HttpRequests ==
    {Request(m, p, a) : m \in {"OPTIONS", "GET", "POST"}, p \in HttpPaths,
                        a \in {"absent", "wrong", "right"}}
    \cup {[Request("POST", "/api/sql", a) EXCEPT !.json = j, !.sql = s, !.params = n] :
             a \in {"wrong", "right"}, j \in BOOLEAN, s \in HttpStatements,
             n \in {0, MaxSqlParams, MaxSqlParams + 1}}
    \cup {[Request("GET", "/backfill", "right") EXCEPT !.days = d, !.offset = o] :
             d \in BackfillParams, o \in BackfillParams}
    \cup {[Request("GET", "/oauth/callback", "absent") EXCEPT !.query = q] :
             q \in {"error", "missing"}}

\* return withCors(new Response(..., {status}), origin)
Respond(h, status) == [h EXCEPT !.pc = "done", !.status = status]

\* the handler awaits: the limiter, the body, the store, the exchange, the sync
Await(h, pc, route) == [h EXCEPT !.pc = pc, !.route = route]

\* the handler with the limiter of lines 204-208 ahead of the bearer check
HttpOnRequestLimitFirst(h, req) ==
    LET g == [h EXCEPT !.req = req, !.status = 0, !.route = "none",
                       !.limiter = 0, !.reads = 0, !.writes = 0, !.states = 0,
                       !.syncs = 0, !.prepared = <<>>, !.accepted = "none",
                       !.served = @ + 1, !.started = NoSync]
    IN  IF req.method = "OPTIONS" THEN Respond(g, 204)
        ELSE IF req.path = "/health" THEN Await(g, "limit", "health")
        ELSE IF req.path \in {"/favicon.ico", "/favicon.svg"} THEN Respond(g, 200)
        ELSE IF req.path = "/oauth/callback" THEN Await(g, "limit", "callback")
        ELSE Await(g, "limit", "auth")

\* lines 71-208: from the arrival of the request to its first await
HttpOnRequest(h, req) ==
    LET g == [h EXCEPT !.req = req, !.status = 0, !.route = "none",
                       !.limiter = 0, !.reads = 0, !.writes = 0, !.states = 0,
                       !.syncs = 0, !.prepared = <<>>, !.accepted = "none",
                       !.served = @ + 1, !.started = NoSync]
    IN  IF req.method = "OPTIONS" THEN Respond(g, 204)
        ELSE IF req.path = "/health" THEN Await(g, "limit", "health")
        ELSE IF req.path \in {"/favicon.ico", "/favicon.svg"} THEN Respond(g, 200)
        ELSE IF req.path = "/oauth/callback" THEN Await(g, "limit", "callback")
        ELSE IF req.auth # "right" THEN Respond(g, 401)
        ELSE Await(g, "limit", "auth")

\* lines 282 and 284: param ? Number(param) : dflt
NumberOr(param, dflt) == IF param.given THEN param ELSE Given(dflt)

\* lines 283-285: offsetDays of /backfill
BackfillOffset(req) ==
    LET offsetRaw == NumberOr(req.offset, 0)
    IN  IF offsetRaw.finite /\ offsetRaw.n >= 0
        THEN Min(offsetRaw.n, MaxBackfillDays) ELSE 0

\* lines 282-287: totalDays of /backfill
BackfillDays(req) ==
    LET days == NumberOr(req.days, DefaultBackfillDays)
        maxTotalDays == Max(0, MaxBackfillDays - BackfillOffset(req))
    IN  IF days.finite /\ days.n > 0 THEN Min(days.n, maxTotalDays)
        ELSE DefaultBackfillDays

\* lines 298 and 311: syncData(env, totalDays, offsetDays, resourceFilter)
StartSync(h) ==
    [h EXCEPT !.syncs = @ + 1,
              !.started = [totalDays |-> BackfillDays(h.req),
                           offsetDays |-> BackfillOffset(h.req)]]

\* after env.RATE_LIMITER.limit() has answered
HttpOnLimit(h, success) ==
    LET g == [h EXCEPT !.limiter = @ + 1]
        req == h.req
    IN  CASE h.route = "health" -> Respond(g, IF success THEN 200 ELSE 429)
          [] h.route = "callback" ->
               IF ~success THEN Respond(g, 429)
               ELSE IF ~h.bound THEN Respond(g, 500)
               ELSE IF req.query \in {"error", "missing"} THEN Respond(g, 400)
               ELSE Await(g, "store", "lookup")
          [] h.route = "backfill" ->
               IF ~success THEN Respond(g, 429)
               ELSE IF BackfillDays(req) <= 0 THEN Respond(g, 400)
               ELSE IF BackfillDays(req) <= 1
                 THEN Respond(StartSync(g), 202)
               ELSE Await(StartSync(g), "sync", "backfill")
          [] h.route = "auth" ->
               IF ~success THEN Respond(g, 429)
               ELSE IF ~h.bound THEN Respond(g, 500)
               ELSE IF req.path = "/oauth/start" THEN Await(g, "store", "start")
               ELSE IF req.path = "/backfill" THEN Await(g, "limit", "backfill")
               ELSE IF req.path = "/api/daily_summaries" THEN Await(g, "store", "daily")
               ELSE IF req.path = "/api/sql" /\ req.method = "POST"
                 THEN Await(g, "body", "sql")
               ELSE IF req.path = "/api/sql" THEN Respond(g, 405)
               ELSE IF req.path = "/api/stats" THEN Await(g, "store", "stats")
               ELSE IF req.path = "/" THEN Await(g, "store", "root")
               ELSE Respond(g, 404)

\* body.sql.trim(), '' when the body is no JSON or holds no string
TrimmedSql(req) ==
    IF req.json
      THEN [text |-> trimEnd(trimStart(req.sql.text)),
            length |-> req.sql.length - req.sql.padding, padding |-> 0]
      ELSE NoSql

\* /api/sql without the limit on the parameters
HttpOnBodyAnyParams(h) ==
    LET sql == TrimmedSql(h.req) IN
      IF sql.length > MaxSqlLength THEN Respond(h, 400)
      ELSE IF ~isReadOnlySql(sql.text)
        THEN Respond([h EXCEPT !.accepted = "no"], 400)
      ELSE Await([h EXCEPT !.accepted = "yes", !.prepared = sql.text], "store", "sql")

\* lines 371-404: after request.json() has settled
HttpOnBody(h) ==
    LET sql == TrimmedSql(h.req) IN
      IF sql.length > MaxSqlLength THEN Respond(h, 400)
      ELSE IF ~isReadOnlySql(sql.text)
        THEN Respond([h EXCEPT !.accepted = "no"], 400)
      ELSE IF h.req.params > MaxSqlParams
        THEN Respond([h EXCEPT !.accepted = "yes"], 400)
      ELSE Await([h EXCEPT !.accepted = "yes", !.prepared = sql.text], "store", "sql")

\* after the awaited store call has settled: res is "ok", "error" (the call
\* throws), "none" (no row) or "expired" (a pending state older than the TTL)
HttpOnStore(h, res) ==
    CASE h.route = "start" ->
           IF res = "error" THEN Respond([h EXCEPT !.writes = @ + 1], 500)
           ELSE Respond([h EXCEPT !.writes = @ + 1, !.states = @ + 1],
                        IF h.clientId THEN 302 ELSE 500)
      [] h.route \in {"daily", "root", "sql", "fallback"} ->
           Respond([h EXCEPT !.reads = @ + 1], IF res = "error" THEN 500 ELSE 200)
      [] h.route = "stats" ->
           LET g == [h EXCEPT !.reads = @ + 1] IN
             IF res = "error" THEN Respond(g, 500)
             ELSE IF res = "none" THEN Await(g, "store", "fallback")
             ELSE Respond(g, 200)
      [] h.route = "lookup" ->
           LET g == [h EXCEPT !.reads = @ + 1] IN
             IF res = "error" THEN Respond(g, 500)
             ELSE IF res = "none" THEN Respond(g, 400)
             ELSE IF res = "expired" THEN Await(g, "store", "expire")
             ELSE Await(g, "store", "delete")
      [] h.route = "expire" ->
           Respond([h EXCEPT !.writes = @ + 1], IF res = "error" THEN 500 ELSE 400)
      [] h.route = "delete" ->
           IF res = "error" THEN Respond([h EXCEPT !.writes = @ + 1], 500)
           ELSE Await([h EXCEPT !.writes = @ + 1], "exchange", "exchange")
      [] h.route = "upsert" ->
           Respond([h EXCEPT !.writes = @ + 1], IF res = "error" THEN 500 ELSE 200)

\* after exchangeAuthorizationCodeForToken has settled
HttpOnExchange(h, ok) ==
    IF ok THEN Await(h, "store", "upsert") ELSE Respond(h, 500)

\* after syncData and updateTableStats have settled
HttpOnSync(h, ok) == Respond(h, IF ok THEN 200 ELSE 500)

HttpRequest(req) ==
    /\ http.pc \in {"idle", "done"}
    /\ http.served < MaxRequests
    /\ http' = HttpOnRequest(http, req)
    /\ UNCHANGED <<fw, ing, sync, task, now, oauth, tok, cat, db>>

HttpLimit(success) ==
    /\ http.pc = "limit"
    /\ http' = HttpOnLimit(http, success)
    /\ UNCHANGED <<fw, ing, sync, task, now, oauth, tok, cat, db>>

HttpBody ==
    /\ http.pc = "body"
    /\ http' = HttpOnBody(http)
    /\ UNCHANGED <<fw, ing, sync, task, now, oauth, tok, cat, db>>

HttpStore(res) ==
    /\ http.pc = "store"
    /\ res \in {"expired"} => http.route = "lookup"
    /\ res \in {"none"} => http.route \in {"lookup", "stats"}
    /\ http' = HttpOnStore(http, res)
    /\ UNCHANGED <<fw, ing, sync, task, now, oauth, tok, cat, db>>

HttpExchange(ok) ==
    /\ http.pc = "exchange"
    /\ http' = HttpOnExchange(http, ok)
    /\ UNCHANGED <<fw, ing, sync, task, now, oauth, tok, cat, db>>

HttpSync(ok) ==
    /\ http.pc = "sync"
    /\ http' = HttpOnSync(http, ok)
    /\ UNCHANGED <<fw, ing, sync, task, now, oauth, tok, cat, db>>

InitHttp ==
    /\ fw = FwIdle
    /\ ing = IngVarIdle
    /\ sync = SyncIdle
    /\ task = <<>>
    /\ now = 0
    /\ oauth = OauthIdle
    /\ tok = TokIdle
    /\ cat = CatIdle
    /\ db = DbIdle
    /\ \E b \in BOOLEAN, c \in BOOLEAN :
          http = [HttpIdle EXCEPT !.bound = b, !.clientId = c]

NextHttp ==
    \/ \E req \in HttpRequests : HttpRequest(req)
    \/ \E success \in BOOLEAN : HttpLimit(success)
    \/ HttpBody
    \/ \E res \in {"ok", "error", "none", "expired"} : HttpStore(res)
    \/ \E ok \in BOOLEAN : HttpExchange(ok)
    \/ \E ok \in BOOLEAN : HttpSync(ok)

SpecHttp == InitHttp /\ [][NextHttp]_vars

(***************************************************************************)
(* syncData paired with updateTableStats: scheduled (lines 62-69) and the  *)
(* two branches of /backfill (lines 296-316). The pairing's state is       *)
(* http.job. One action is one resumption: a D1 batch of the sync commits, *)
(* syncData settles, a SELECT of updateTableStats is answered, its batch   *)
(* commits.                                                                *)
(***************************************************************************)
JobModes == {"scheduled", "background", "synchronous"}

\* lines 63-68 and 298-303: Promise.all([syncData(...), updateTableStats(env)])
\* calls both, and each runs to its first await: updateTableStats has sent its
\* first SELECT (line 1387) when syncData awaits the catalog (line 533).
\* Line 311: await syncData(...) alone; n is the number of batches it will
\* commit.
JobOnStart(j, mode, n) ==
    [j EXCEPT !.mode = mode, !.sync = "running", !.planned = n, !.left = n,
              !.stats = IF mode = "synchronous" THEN "idle" ELSE "query",
              !.asked = 0, !.counted = <<>>, !.runs = @ + 1]

\* saveToD1: a batch of the sync commits
JobOnWrite(j) == [j EXCEPT !.left = @ - 1, !.rows = @ + 1]

\* syncData settles: it returns after its last batch, or throws from the
\* catalog load before any; lines 311-316: the synchronous branch then calls
\* updateTableStats, or answers 500 from the catch without calling it
JobOnSyncEnd(j, ok) ==
    [j EXCEPT !.sync = IF ok THEN "done" ELSE "threw",
              !.left = 0,
              !.stats = IF j.mode # "synchronous" THEN @
                        ELSE IF ok THEN "query" ELSE "skipped"]

\* lines 1386-1409: a SELECT is answered with the table as it is now, and the
\* next is sent, or after the last the batch of updates; lines 1417-1422: a
\* failed SELECT ends the update
JobOnQuery(j, ok) ==
    IF ~ok THEN [j EXCEPT !.stats = "failed"]
    ELSE [j EXCEPT !.asked = @ + 1, !.counted = Append(@, j.rows),
                   !.stats = IF j.asked + 1 = StatsQueries THEN "batch"
                             ELSE "query"]

\* lines 1408-1410: the batch that writes table_stats commits
JobOnBatch(j) == [j EXCEPT !.stats = "done"]

JobStart(mode, n) ==
    /\ http.job.sync # "running"
    /\ http.job.stats \notin {"query", "batch"}
    /\ http.job.runs < MaxJobs
    /\ http' = [http EXCEPT !.job = JobOnStart(@, mode, n)]
    /\ UNCHANGED <<fw, ing, sync, task, now, oauth, tok, cat, db>>

JobWrite ==
    /\ http.job.sync = "running" /\ http.job.left > 0
    /\ http' = [http EXCEPT !.job = JobOnWrite(@)]
    /\ UNCHANGED <<fw, ing, sync, task, now, oauth, tok, cat, db>>

JobSyncEnd(ok) ==
    /\ http.job.sync = "running"
    /\ IF ok THEN http.job.left = 0 ELSE http.job.left = http.job.planned
    /\ http' = [http EXCEPT !.job = JobOnSyncEnd(@, ok)]
    /\ UNCHANGED <<fw, ing, sync, task, now, oauth, tok, cat, db>>

JobQuery(ok) ==
    /\ http.job.stats = "query"
    /\ http' = [http EXCEPT !.job = JobOnQuery(@, ok)]
    /\ UNCHANGED <<fw, ing, sync, task, now, oauth, tok, cat, db>>

JobBatch ==
    /\ http.job.stats = "batch"
    /\ http' = [http EXCEPT !.job = JobOnBatch(@)]
    /\ UNCHANGED <<fw, ing, sync, task, now, oauth, tok, cat, db>>

InitJob ==
    /\ fw = FwIdle
    /\ ing = IngVarIdle
    /\ sync = SyncIdle
    /\ task = <<>>
    /\ now = 0
    /\ oauth = OauthIdle
    /\ tok = TokIdle
    /\ cat = CatIdle
    /\ db = DbIdle
    /\ http = HttpIdle

NextJob ==
    \/ \E mode \in JobModes, n \in 0..MaxJobWrites : JobStart(mode, n)
    \/ JobWrite
    \/ \E ok \in BOOLEAN : JobSyncEnd(ok)
    \/ \E ok \in BOOLEAN : JobQuery(ok)
    \/ JobBatch

SpecJob == InitJob /\ [][NextJob]_vars

\* parseResourceFilter's null
NoFilter == {"*"}

Call(doc, totalDays, offsetDays, resourceFilter) ==
    [doc |-> doc, totalDays |-> totalDays, offsetDays |-> offsetDays,
     resourceFilter |-> resourceFilter]

\* The syncs explored: the API description the remote serves and syncData's
\* arguments.
SyncCalls ==
    { Call(Docs.SleepInfo, 3, 0, NoFilter),
      Call(Docs.SleepInfo, 91, 7, NoFilter),
      Call(Docs.HeartInfo, 30, 0, NoFilter),
      Call(Docs.SleepHeart, 3, 7, NoFilter),
      Call(Docs.All, 29, 0, {"heartrate", "personal_info"}),
      Call(Docs.All, 59, 7, {"heartrate"}),
      Call(Docs.All, 180, 0, {"daily_sleep", "sleep"}),
      Call(Docs.SleepInfo, 3, 0, {"tag"}),
      Call(Docs.None, 3, 0, NoFilter) }

getChunkDaysIgnoringHeartrate(r) == DefaultChunkDays

\* lines 619-624
getChunkDaysForResource(r) ==
    IF r.resource = "heartrate" THEN HeartrateChunkDays ELSE DefaultChunkDays


\* lines 534-536
SelectResources(resourcesAll, resourceFilter) ==
    IF resourceFilter = NoFilter THEN resourcesAll
    ELSE SelectSeq(resourcesAll, LAMBDA r : r.resource \in resourceFilter)

\* lines 553-559: the window of loop index i, its two dates computed from two
\* reads of the clock, t1 then t2
BuildWindow(totalDays, offsetDays, chunkDays, i, t1, t2) ==
    LET windowDays == Min(chunkDays, totalDays - i) IN
    [startDate |-> isoDate(t1 - (offsetDays + i + windowDays) * UnitsPerDay),
     endDate |-> isoDate(t2 - (offsetDays + i) * UnitsPerDay)]

NoWindow == [startDate |-> 0, endDate |-> 0]

(***************************************************************************)
(* One resource's task (the async callback of resources.map):              *)
(*   pc        "ingest" while an ingestResource call is in flight,         *)
(*             "settled" once the callback has returned                    *)
(*   r, i, requestCount     the callback's locals                          *)
(*   window    the window passed to the ingestResource call in flight      *)
(*   ic        that call                                                   *)
(*   value     the callback's result {resource, success, requests}         *)
(* and what happened so far, for the properties:                           *)
(*   calls     ingestResource calls made                                   *)
(*   unsaved   batches of records received and not (yet) persisted        *)
(*   saved     whether a batch of records was persisted                    *)
(*   hist      "ok": so far the token was obtained, every response was a   *)
(*             success with a valid body and every save completed;         *)
(*             "only500": so far every response had status 500;           *)
(*             "other" otherwise                                           *)
(*   failed    the first ingestResource call of the task whose fetch       *)
(*             failed, and how: "http" (a non-success response came back   *)
(*             from fetchWithRetry), "json" (no JSON object in the body),  *)
(*             "threw" (the fetch rejected)                                *)
(***************************************************************************)
NoValue == [success |-> FALSE, requests |-> 0]

NoFailure == [call |-> 0, kind |-> "none"]

\* lines 543-544 and 560: call ingestResource for the window
TaskIngest(t, window) ==
    [t EXCEPT !.pc = "ingest", !.window = window, !.calls = @ + 1,
              !.ic = IngStart(t.r.paginated)]

\* line 545 / line 564: the callback returns success
TaskSucceed(t, requests) ==
    [t EXCEPT !.pc = "settled", !.value = [success |-> TRUE, requests |-> requests]]

\* lines 565-573: the catch block returns success: false (no requests field)
TaskFail(t) ==
    [t EXCEPT !.pc = "settled", !.value = [success |-> FALSE, requests |-> 0]]

\* lines 541-553: the callback up to its first await. t1, t2: the clock reads
TaskBegin(r, totalDays, offsetDays, t1, t2) ==
    LET t0 == [pc |-> "start", r |-> r, i |-> 0, requestCount |-> 0,
               window |-> NoWindow, ic |-> IngIdle, value |-> NoValue,
               calls |-> 0, unsaved |-> 0, saved |-> FALSE, hist |-> "ok",
               failed |-> NoFailure]
    IN  IF r.queryMode = "none" THEN TaskIngest(t0, NoWindow)
        ELSE IF 0 < totalDays
             THEN TaskIngest(t0, BuildWindow(totalDays, offsetDays,
                                             getChunkDaysForResource(r), 0, t1, t2))
             ELSE TaskSucceed(t0, 0)

\* a callback that goes on to its next window while the records of the page
\* are being saved
TaskAfterIngestEager(t, totalDays, offsetDays, t1, t2) ==
    IF t.ic.pc = "threw" THEN TaskFail(t)
    ELSE IF t.ic.pc \notin {"returned", "save"} THEN t
    ELSE IF t.r.queryMode = "none" THEN TaskSucceed(t, 1)
    ELSE LET chunkDays == getChunkDaysForResource(t.r)
             i == t.i + chunkDays
             u == [t EXCEPT !.requestCount = @ + 1, !.i = i]
         IN  IF i < totalDays
             THEN TaskIngest(u, BuildWindow(totalDays, offsetDays, chunkDays, i, t1, t2))
             ELSE TaskSucceed(u, u.requestCount)

\* The callback after `await ingestResource` settles: lines 545, 561-564 when
\* it returned, the catch block when it threw.
TaskAfterIngest(t, totalDays, offsetDays, t1, t2) ==
    IF t.ic.pc = "threw" THEN TaskFail(t)
    ELSE IF t.ic.pc # "returned" THEN t
    ELSE IF t.r.queryMode = "none" THEN TaskSucceed(t, 1)
    ELSE LET chunkDays == getChunkDaysForResource(t.r)
             i == t.i + chunkDays
             u == [t EXCEPT !.requestCount = @ + 1, !.i = i]
         IN  IF i < totalDays
             THEN TaskIngest(u, BuildWindow(totalDays, offsetDays, chunkDays, i, t1, t2))
             ELSE TaskSucceed(u, u.requestCount)

\* whether this resumption builds a window, i.e. reads the clock
ReadsClock(t, totalDays) ==
    /\ t.ic.pc = "returned"
    /\ t.r.queryMode # "none"
    /\ t.i + getChunkDaysForResource(t.r) < totalDays

Range(f) == {f[x] : x \in DOMAIN f}

Names(resources) == {resources[k].resource : k \in DOMAIN resources}

ByName(resources, name) ==
    CHOOSE r \in Range(resources) : r.resource = name

\* lines 526-533: syncData is called and calls loadOuraResourcesFromOpenApi.
\* The KV entry, if there is one, was written by an earlier load of the
\* description the remote still serves.
SyncStart(doc, totalDays, offsetDays, resourceFilter) ==
    /\ sync.pc = "idle"
    /\ cat.kv.held => cat.kv.list = BuildResources(doc)
    /\ sync' = [sync EXCEPT !.pc = "loading", !.doc = doc,
                            !.totalDays = totalDays,
                            !.offsetDays = offsetDays,
                            !.resourceFilter = resourceFilter]
    /\ cat' = LoadStart(cat)
    /\ UNCHANGED <<fw, ing, task, now, oauth, tok, db, http>>

\* line 533: loadOuraResourcesFromOpenApi throws, and syncData with it
SyncLoadThrew ==
    /\ sync.pc = "loading"
    /\ cat.call.pc = "threw"
    /\ sync' = [sync EXCEPT !.pc = "rejected", !.loadError = cat.call.res]
    /\ cat' = [cat EXCEPT !.call = LoadIdle]
    /\ UNCHANGED <<fw, ing, task, now, oauth, tok, db, http>>

\* lines 533-575 up to the await of Promise.allSettled: resourcesAll is what
\* loadOuraResourcesFromOpenApi returned; every callback runs to its first
\* await before any of them is resumed
SyncCall ==
    /\ sync.pc = "loading"
    /\ cat.call.pc = "returned"
    /\ LET resourcesAll == cat.call.result
           resources == SelectResources(resourcesAll, sync.resourceFilter) IN
       \E t1 \in ClockReads(now) : \E t2 \in ClockReads(t1) :
          /\ task' = [n \in Names(resources) |->
                        TaskBegin(ByName(resources, n), sync.totalDays,
                                  sync.offsetDays, t1, t2)]
          /\ now' = t2
          /\ sync' = [sync EXCEPT !.pc = "running", !.catalog = resourcesAll,
                                  !.resources = resources,
                                  !.loadError =
                                      IF cat.call.res \in {"nonok", "invalid"}
                                      THEN cat.call.res ELSE "none"]
    /\ cat' = [cat EXCEPT !.call = LoadIdle]
    /\ UNCHANGED <<fw, ing, oauth, tok, db, http>>

\* A task's ingestResource call is resumed with ic as its new state; the task
\* goes on from there to its next await.
TaskResume(n, ic, hist, unsaved, saved) ==
    LET fetchFailed == /\ task[n].ic.pc = "fetch"
                       /\ ic.pc = "threw" \/ ic.logged \in {"http", "json"}
        t == [task[n] EXCEPT !.ic = ic, !.hist = hist, !.unsaved = unsaved,
                             !.saved = saved,
                             !.failed = IF @ = NoFailure /\ fetchFailed
                                        THEN [call |-> task[n].calls,
                                              kind |-> IF ic.pc = "threw" THEN "threw"
                                                       ELSE ic.logged]
                                        ELSE @]
    IN  IF ReadsClock(t, sync.totalDays)
        THEN \E t1 \in ClockReads(now) : \E t2 \in ClockReads(t1) :
                /\ task' = [task EXCEPT ![n] =
                              TaskAfterIngest(t, sync.totalDays, sync.offsetDays, t1, t2)]
                /\ now' = t2
        ELSE /\ task' = [task EXCEPT ![n] =
                           TaskAfterIngest(t, sync.totalDays, sync.offsetDays, now, now)]
             /\ now' = now

Running(n) ==
    /\ sync.pc \in {"running", "done"}
    /\ n \in DOMAIN task
    /\ task[n].pc = "ingest"

TaskToken(n, tokenOk) ==
    /\ Running(n)
    /\ task[n].ic.pc = "token"
    /\ TaskResume(n, IngOnToken(task[n].ic, tokenOk),
                  IF tokenOk THEN task[n].hist ELSE "other",
                  task[n].unsaved, task[n].saved)
    /\ UNCHANGED <<fw, ing, sync, oauth, tok, cat, db, http>>

\* hist after a response; first: it is the task's first response
HistAfter(hist, first, status, body) ==
    IF hist = "ok" /\ ResOk(status) /\ body.valid THEN "ok"
    ELSE IF status = 500 /\ (first \/ hist = "only500") THEN "only500"
    ELSE "other"

\* the remote serves at most MaxPagesServed pages per window
Served(ic, body) == body.token # NoToken => ic.page + 1 < MaxPagesServed

TaskResponse(n, status, body) ==
    /\ Running(n)
    /\ task[n].ic.pc = "fetch"
    /\ Served(task[n].ic, body)
    /\ TaskResume(n, IngOnResponse(task[n].ic, status, body),
                  HistAfter(task[n].hist,
                            task[n].calls = 1 /\ task[n].ic.requests = 1
                                /\ task[n].ic.attempt = 0,
                            status, body),
                  IF ResOk(status) /\ body.valid /\ body.data
                  THEN task[n].unsaved + 1 ELSE task[n].unsaved,
                  task[n].saved)
    /\ UNCHANGED <<fw, ing, sync, oauth, tok, cat, db, http>>

TaskReject(n) ==
    /\ Running(n)
    /\ task[n].ic.pc = "fetch"
    /\ TaskResume(n, IngOnReject(task[n].ic), "other", task[n].unsaved, task[n].saved)
    /\ UNCHANGED <<fw, ing, sync, oauth, tok, cat, db, http>>

TaskTimer(n) ==
    /\ Running(n)
    /\ task[n].ic.pc = "backoff"
    /\ TaskResume(n, IngOnTimer(task[n].ic), task[n].hist, task[n].unsaved,
                  task[n].saved)
    /\ UNCHANGED <<fw, ing, sync, oauth, tok, cat, db, http>>

TaskSaved(n, saved) ==
    /\ Running(n)
    /\ task[n].ic.pc = "save"
    /\ TaskResume(n, IngOnSaved(task[n].ic, saved),
                  IF saved THEN task[n].hist ELSE "other",
                  IF saved THEN task[n].unsaved - 1 ELSE task[n].unsaved,
                  task[n].saved \/ saved)
    /\ UNCHANGED <<fw, ing, sync, oauth, tok, cat, db, http>>

\* Promise.all would settle at the first failure
JoinAtFirstFailure ==
    \/ \A n \in DOMAIN task : task[n].pc = "settled"
    \/ \E n \in DOMAIN task : task[n].pc = "settled" /\ ~task[n].value.success

\* line 540: Promise.allSettled resolves once every callback has settled
JoinReady == \A n \in DOMAIN task : task[n].pc = "settled"

\* the callbacks never reject (their whole body is inside try/catch), so every
\* entry of results is {status: 'fulfilled', value}
Results == [n \in DOMAIN task |-> [status |-> "fulfilled", value |-> task[n].value]]

FailedRejectedOnly(results) ==
    Cardinality({n \in DOMAIN results : results[n].status = "rejected"})

\* line 578
Successful(results) ==
    Cardinality({n \in DOMAIN results :
                    results[n].status = "fulfilled" /\ results[n].value.success})

\* line 579
Failed(results) ==
    Cardinality({n \in DOMAIN results :
                    \/ results[n].status = "rejected"
                    \/ results[n].status = "fulfilled" /\ ~results[n].value.success})

RECURSIVE SumRequests(_, _)
SumRequests(results, names) ==
    IF names = {} THEN 0
    ELSE LET n == CHOOSE x \in names : TRUE IN
         results[n].value.requests + SumRequests(results, names \ {n})

\* lines 580-582
TotalRequests(results) ==
    SumRequests(results, {n \in DOMAIN results : results[n].status = "fulfilled"})

\* lines 576-593: the summary
SyncJoin ==
    /\ sync.pc = "running"
    /\ JoinReady
    /\ sync' = [sync EXCEPT !.pc = "done",
                            !.successful = Successful(Results),
                            !.failed = Failed(Results),
                            !.totalRequests = TotalRequests(Results)]
    /\ UNCHANGED <<fw, ing, task, now, oauth, tok, cat, db, http>>

SyncStatuses == {200, 404, 500}

SyncBodies == {b \in Bodies : b.token \in {NoToken, 1}}

InitSync ==
    /\ fw = FwIdle
    /\ ing = IngVarIdle
    /\ sync = SyncIdle
    /\ task = <<>>
    /\ now \in {FirstDay * UnitsPerDay, FirstDay * UnitsPerDay + UnitsPerDay - 1}
    /\ oauth = OauthIdle
    /\ tok = TokIdle
    /\ \E e \in {NoEntry} \cup {[held |-> TRUE, list |-> BuildResources(c.doc)] :
                                    c \in SyncCalls} :
          cat = [CatIdle EXCEPT !.kv = e]
    /\ db = DbIdle
    /\ http = HttpIdle

NextSync ==
    \/ \E c \in SyncCalls :
          SyncStart(c.doc, c.totalDays, c.offsetDays, c.resourceFilter)
    \/ \E ok \in BOOLEAN : LoadGet(ok)
    \/ \E res \in FetchResults({sync.doc}) : LoadFetch(res)
    \/ LoadPut(TRUE)     \* SpecCatalog has the failing KV write: same result
    \/ SyncLoadThrew
    \/ SyncCall
    \/ \E n \in DOMAIN task, ok \in BOOLEAN : TaskToken(n, ok)
    \/ \E n \in DOMAIN task, s \in SyncStatuses, b \in SyncBodies : TaskResponse(n, s, b)
    \/ \E n \in DOMAIN task : TaskReject(n)
    \/ \E n \in DOMAIN task : TaskTimer(n)
    \/ \E n \in DOMAIN task, ok \in BOOLEAN : TaskSaved(n, ok)
    \/ SyncJoin

SpecSync == InitSync /\ [][NextSync]_vars

(***************************************************************************)
(* OAuth: /oauth/start and /oauth/callback, from the state lookup on (the   *)
(* rate limiter and the parameter checks before it touch no state).        *)
(* SpecAuth handles one callback at a time.                                *)
(***************************************************************************)
\* lines 228-234: a fresh state is inserted with created_at = Date.now()
OauthStart(s) ==
    /\ s \notin oauth.issued
    /\ oauth' = [oauth EXCEPT !.states = [x \in DOMAIN @ \cup {s} |->
                                            IF x = s THEN oauth.clock ELSE @[x]],
                              !.issued = @ \cup {s}]
    /\ UNCHANGED <<fw, ing, sync, task, now, tok, cat, db, http>>

OauthTick ==
    /\ oauth.clock < MaxAuthClock
    /\ oauth' = [oauth EXCEPT !.clock = @ + 1]
    /\ UNCHANGED <<fw, ing, sync, task, now, tok, cat, db, http>>

StateExpiredAtTtl(age) == age >= StateTtlMinutes

\* line 174: Date.now() - createdAt > 15 * 60_000 (created_at is the INTEGER
\* NOT NULL that /oauth/start stored, so Number.isFinite(createdAt) holds)
StateExpired(age) == age > StateTtlMinutes

DeleteNothing(states, s) == states

\* lines 175-178 and 182-185: DELETE FROM oura_oauth_states WHERE state = ?
DeleteState(states, s) == [x \in DOMAIN states \ {s} |-> states[x]]

upsertOverwriting(cred, token, t) ==
    [access_token |-> token.access_token,
     refresh_token |-> token.refresh_token,
     expires_at |-> IF token.expires_in # NoExpiry
                    THEN t + Max(0, token.expires_in - ExpiryMarginSeconds)
                    ELSE NoExpiry]

\* lines 1261-1280: expires_at is Date.now() (t) plus expires_in less 60
\* seconds, or null; the upsert replaces access_token and expires_at and keeps
\* the stored refresh token when the new one is null (COALESCE)
upsertOauthToken(cred, token, t) ==
    [access_token |-> token.access_token,
     refresh_token |-> IF token.refresh_token # 0 THEN token.refresh_token
                       ELSE cred.refresh_token,
     expires_at |-> IF token.expires_in # NoExpiry
                    THEN t + Max(0, token.expires_in - ExpiryMarginSeconds)
                    ELSE NoExpiry]

\* The callback handlers as steps on the record o (oauth): o.call is the
\* request the step belongs to.
\* lines 159-168: the request arrives with ?state=s and the SELECT is sent
CbOnBegin(o, s) ==
    [o EXCEPT !.made = @ + 1,
              !.call = [CallIdle EXCEPT !.pc = "lookup", !.state = s,
                                        !.credBefore = o.cred]]

\* lines 165-185: the SELECT resolves; no row: 400 Invalid state; else the age
\* test and the DELETE of either branch is sent
CbOnLookup(o) ==
    LET s == o.call.state
        c == [o.call EXCEPT !.prior = s \notin o.issued \/ s \in o.consumed]
    IN  IF s \notin DOMAIN o.states
        THEN [o EXCEPT !.call = [c EXCEPT !.pc = "done",
                                          !.outcome = "InvalidState"]]
        ELSE LET age == o.clock - o.states[s] IN
             [o EXCEPT !.consumed = @ \cup {s},
                       !.call = [c EXCEPT !.found = TRUE, !.age = age,
                                          !.pc = IF StateExpired(age)
                                                 THEN "deleteExpired"
                                                 ELSE "delete"]]

\* lines 175-179: the DELETE of an expired state resolves: 400 State expired
CbOnDeleteExpired(o) ==
    [o EXCEPT !.states = DeleteState(@, o.call.state),
              !.call = [@ EXCEPT !.pc = "done", !.outcome = "ExpiredState"]]

\* the code is exchanged first and the state left for a later DELETE
CbOnDeleteAfterExchange(o) ==
    [o EXCEPT !.call = [@ EXCEPT !.pc = "exchange", !.exchanged = TRUE]]

\* lines 182-189: the DELETE resolves and the code is sent to the token endpoint
CbOnDelete(o) ==
    [o EXCEPT !.states = DeleteState(@, o.call.state),
              !.call = [@ EXCEPT !.pc = "exchange", !.exchanged = TRUE]]

\* lines 189-190, 1186-1224: the exchange resolves with a token pair (its
\* refresh_token may be missing; here it carries no expires_in, SpecToken
\* covers the expiry), and the upsert is sent; or it throws
CbOnExchange(o, ok, withRefresh) ==
    [o EXCEPT !.call =
        IF ok
        THEN [@ EXCEPT !.pc = "upsert",
                       !.token = [access_token |-> o.made,
                                  refresh_token |-> IF withRefresh
                                                    THEN o.made ELSE 0,
                                  expires_in |-> NoExpiry]]
        ELSE [@ EXCEPT !.pc = "done", !.outcome = "threw"]]

\* lines 190-197: the upsert resolves: 200 OK
CbOnUpsert(o) ==
    [o EXCEPT !.cred = upsertOauthToken(@, o.call.token, o.clock * 60),
              !.okCount[o.call.state] = @ + 1,
              !.call = [@ EXCEPT !.pc = "done", !.wrote = TRUE,
                                 !.outcome = "ok"]]

CbBegin(s) ==
    /\ oauth.call.pc \in {"idle", "done"}
    /\ oauth.made < MaxCallbacks
    /\ oauth' = CbOnBegin(oauth, s)
    /\ UNCHANGED <<fw, ing, sync, task, now, tok, cat, db, http>>

CbLookup ==
    /\ oauth.call.pc = "lookup"
    /\ oauth' = CbOnLookup(oauth)
    /\ UNCHANGED <<fw, ing, sync, task, now, tok, cat, db, http>>

CbDeleteExpired ==
    /\ oauth.call.pc = "deleteExpired"
    /\ oauth' = CbOnDeleteExpired(oauth)
    /\ UNCHANGED <<fw, ing, sync, task, now, tok, cat, db, http>>

CbDelete ==
    /\ oauth.call.pc = "delete"
    /\ oauth' = CbOnDelete(oauth)
    /\ UNCHANGED <<fw, ing, sync, task, now, tok, cat, db, http>>

CbExchange(ok, withRefresh) ==
    /\ oauth.call.pc = "exchange"
    /\ oauth' = CbOnExchange(oauth, ok, withRefresh)
    /\ UNCHANGED <<fw, ing, sync, task, now, tok, cat, db, http>>

CbUpsert ==
    /\ oauth.call.pc = "upsert"
    /\ oauth' = CbOnUpsert(oauth)
    /\ UNCHANGED <<fw, ing, sync, task, now, tok, cat, db, http>>

InitAuth ==
    /\ fw = FwIdle
    /\ ing = IngVarIdle
    /\ sync = SyncIdle
    /\ task = <<>>
    /\ now = 0
    /\ oauth = OauthIdle
    /\ tok = TokIdle
    /\ cat = CatIdle
    /\ db = DbIdle
    /\ http = HttpIdle

NextAuth ==
    \/ \E s \in StatePool : OauthStart(s)
    \/ OauthTick
    \/ \E s \in StatePool : CbBegin(s)
    \/ CbLookup
    \/ CbDeleteExpired
    \/ CbDelete
    \/ \E ok \in BOOLEAN, withRefresh \in BOOLEAN : CbExchange(ok, withRefresh)
    \/ CbUpsert

SpecAuth == InitAuth /\ [][NextAuth]_vars

(***************************************************************************)
(* SpecRace: two /oauth/callback requests in one isolate. Each await of    *)
(* the handler is a point at which the other request may take its steps.   *)
(***************************************************************************)
\* the same handler, run for the other request
Swap(o) == [o EXCEPT !.call = o.rival, !.rival = o.call]

RivalBegin(s) ==
    /\ oauth.rival.pc \in {"idle", "done"}
    /\ oauth.made < MaxCallbacks
    /\ oauth' = Swap(CbOnBegin(Swap(oauth), s))
    /\ UNCHANGED <<fw, ing, sync, task, now, tok, cat, db, http>>

RivalLookup ==
    /\ oauth.rival.pc = "lookup"
    /\ oauth' = Swap(CbOnLookup(Swap(oauth)))
    /\ UNCHANGED <<fw, ing, sync, task, now, tok, cat, db, http>>

RivalDeleteExpired ==
    /\ oauth.rival.pc = "deleteExpired"
    /\ oauth' = Swap(CbOnDeleteExpired(Swap(oauth)))
    /\ UNCHANGED <<fw, ing, sync, task, now, tok, cat, db, http>>

RivalDelete ==
    /\ oauth.rival.pc = "delete"
    /\ oauth' = Swap(CbOnDelete(Swap(oauth)))
    /\ UNCHANGED <<fw, ing, sync, task, now, tok, cat, db, http>>

RivalExchange(ok, withRefresh) ==
    /\ oauth.rival.pc = "exchange"
    /\ oauth' = Swap(CbOnExchange(Swap(oauth), ok, withRefresh))
    /\ UNCHANGED <<fw, ing, sync, task, now, tok, cat, db, http>>

RivalUpsert ==
    /\ oauth.rival.pc = "upsert"
    /\ oauth' = Swap(CbOnUpsert(Swap(oauth)))
    /\ UNCHANGED <<fw, ing, sync, task, now, tok, cat, db, http>>

\* /oauth/start has stored the state "s1", a minute less than the TTL ago
InitRace ==
    /\ fw = FwIdle
    /\ ing = IngVarIdle
    /\ sync = SyncIdle
    /\ task = <<>>
    /\ now = 0
    /\ oauth = [OauthIdle EXCEPT !.clock = StateTtlMinutes - 1,
                                 !.states = [x \in {"s1"} |-> 0],
                                 !.issued = {"s1"}]
    /\ tok = TokIdle
    /\ cat = CatIdle
    /\ db = DbIdle
    /\ http = HttpIdle

NextRace ==
    \/ NextAuth
    \/ \E s \in StatePool : RivalBegin(s)
    \/ RivalLookup
    \/ RivalDeleteExpired
    \/ RivalDelete
    \/ \E ok \in BOOLEAN, withRefresh \in BOOLEAN : RivalExchange(ok, withRefresh)
    \/ RivalUpsert

SpecRace == InitRace /\ [][NextRace]_vars

(***************************************************************************)
(* getOuraAccessToken, refreshAccessToken and the credential upserts       *)
(* (SpecToken). Calls may overlap: syncData's resource tasks each call     *)
(* getOuraAccessToken, and tokenCache is shared by all of them.            *)
(***************************************************************************)
PatToken == 9       \* the value of env.OURA_PAT

ExpiresInChoices == {NoExpiry, 30, 180}

\* what /oauth/callback's exchange and refreshAccessToken may be answered
AuthResponses ==
    [access_token : {1}, refresh_token : {0, 1}, expires_in : ExpiresInChoices]
RefreshResponses ==
    [access_token : {2}, refresh_token : {0, 2}, expires_in : ExpiresInChoices]

\* the ways the POST of line 1236 ends: fetch rejects, a non-2xx status, a
\* body that is no JSON object, no access_token in it, or a token response
ExchangeResults ==
    [kind : {"reject", "nonok", "malformed", "noaccess"}, token : {NoResponse}]
        \cup [kind : {"ok"}, token : RefreshResponses]

CacheFreshNoMargin(cache, t) == cache.token # 0 /\ cache.expiresAt > t

\* line 1285: tokenCache && tokenCache.expiresAt > Date.now() + 60_000
CacheFresh(cache, t) ==
    cache.token # 0 /\ cache.expiresAt > t + SafetyMarginSeconds

hasValidAccessFiniteOnly(row, t) ==
    /\ row.access_token # 0
    /\ row.expires_at # NoExpiry
    /\ row.expires_at > t + SafetyMarginSeconds

\* lines 1308-1311
hasValidAccess(row, t) ==
    /\ row.access_token # 0
    /\ IF row.expires_at # NoExpiry
       THEN row.expires_at > t + SafetyMarginSeconds
       ELSE TRUE

\* the call returns token (its locals are gone)
TokReturn(c, source, token) ==
    [c EXCEPT !.pc = "done", !.outcome = "ok", !.source = source, !.token = token,
              !.refreshToken = 0, !.refreshed = NoResponse, !.upsertAt = 0]

TokThrow(c, error) ==
    [c EXCEPT !.pc = "done", !.outcome = error, !.refreshToken = 0]

\* the calls are interchangeable: a new call is given the first free slot
FreeSlots(T) == {k \in TokSlots : T.calls[k].pc \in {"idle", "done"}}
FirstFree(T) == CHOOSE k \in FreeSlots(T) : \A j \in FreeSlots(T) : k <= j

\* tokenCache = entry, by call k, which then returns the token
TokCacheAndReturn(T, k, c, entry, source) ==
    [T EXCEPT !.cache = entry,
              !.calls[k] = TokReturn([c EXCEPT !.cacheSets = @ + 1], source,
                                     entry.token)]

\* lines 1297-1302 and 1334-1338: the static token if there is one
TokFallback(T, k, c) ==
    IF T.pat
    THEN TokCacheAndReturn(T, k, c,
             [token |-> PatToken, expiresAt |-> T.clock + PatLifetimeSeconds],
             "pat")
    ELSE [T EXCEPT !.calls[k] = TokThrow(c, "NoCredential")]

\* lines 1283-1293: the cache test; on a miss the SELECT is sent
TokOnCall(T, k) ==
    IF CacheFresh(T.cache, T.clock)
    THEN [T EXCEPT !.made = @ + 1,
                   !.calls[k] = TokReturn(TokCallIdle, "cache", T.cache.token)]
    ELSE [T EXCEPT !.made = @ + 1,
                   !.calls[k] = [TokCallIdle EXCEPT !.pc = "select",
                                                    !.reads = @ + 1]]

\* lines 1290-1338: the SELECT resolves with the row
TokOnRow(T, k) ==
    LET t == T.clock
        row == T.row
        c == T.calls[k]
    IN  IF row.access_token = 0
        THEN TokFallback(T, k, c)
        ELSE IF hasValidAccess(row, t)
        THEN TokCacheAndReturn(T, k, c,
                 [token |-> row.access_token,
                  expiresAt |-> IF row.expires_at # NoExpiry THEN row.expires_at
                                ELSE t + DefaultLifetimeSeconds],
                 "store")
        ELSE IF row.refresh_token # 0
        THEN IF ~T.client
             THEN [T EXCEPT !.calls[k] = TokThrow(c, "MissingClient")]
             ELSE [T EXCEPT !.calls[k] =
                      [c EXCEPT !.pc = "exchange", !.exchanges = @ + 1,
                                !.refreshToken = row.refresh_token]]
        ELSE TokFallback(T, k, c)

TokOnExchangeFailureClearing(T, k, kind) ==
    [T EXCEPT !.cache = NoCache,
              !.calls[k] = TokThrow([@ EXCEPT !.answer = kind], "ExchangeFailed")]

TokOnExchangeFailureRetrying(T, k, kind) ==
    IF T.calls[k].exchanges < 2
    THEN [T EXCEPT !.calls[k].exchanges = @ + 1]
    ELSE [T EXCEPT !.calls[k] = TokThrow([@ EXCEPT !.answer = kind],
                                         "ExchangeFailed")]

\* lines 1244-1256: refreshAccessToken throws and getOuraAccessToken with it
TokOnExchangeFailure(T, k, kind) ==
    [T EXCEPT !.calls[k] = TokThrow([@ EXCEPT !.answer = kind], "ExchangeFailed")]

\* lines 1236-1258, 1323-1324, 1262-1267: the POST resolves (the reads of the
\* body that follow touch nothing shared); with a token response, expiresAt
\* is computed and the upsert is sent
TokOnExchange(T, k, res) ==
    IF res.kind # "ok"
    THEN TokOnExchangeFailure(T, k, res.kind)
    ELSE [T EXCEPT !.calls[k] = [@ EXCEPT !.pc = "upsert", !.refreshed = res.token,
                                          !.answer = "ok", !.refreshToken = 0,
                                          !.upsertAt = T.clock,
                                          !.writes = @ + 1]]

\* an upsert of token, computed at time at, reaches the table
TokWrite(T, token, at) ==
    [T EXCEPT !.row = upsertOauthToken(T.row, token, at), !.written = token]

\* lines 1267-1280, 1324-1331: the upsert resolves, the refreshed token is
\* cached and returned
TokOnUpserted(T, k) ==
    LET c == T.calls[k]
        e == c.refreshed.expires_in
        newExpiresAt == IF e # NoExpiry
                        THEN T.clock + Max(0, e - ExpiryMarginSeconds)
                        ELSE T.clock + DefaultLifetimeSeconds
    IN  TokCacheAndReturn(TokWrite(T, c.refreshed, c.upsertAt), k, c,
            [token |-> c.refreshed.access_token, expiresAt |-> newExpiresAt],
            "refresh")

TokCall ==
    /\ FreeSlots(tok) # {}
    /\ tok.made < MaxTokCalls
    /\ tok' = TokOnCall(tok, FirstFree(tok))
    /\ UNCHANGED <<fw, ing, sync, task, now, oauth, cat, db, http>>

TokRow(k) ==
    /\ tok.calls[k].pc = "select"
    /\ tok' = TokOnRow(tok, k)
    /\ UNCHANGED <<fw, ing, sync, task, now, oauth, cat, db, http>>

TokExchange(k, res) ==
    /\ tok.calls[k].pc = "exchange"
    /\ tok' = TokOnExchange(tok, k, res)
    /\ UNCHANGED <<fw, ing, sync, task, now, oauth, cat, db, http>>

TokUpserted(k) ==
    /\ tok.calls[k].pc = "upsert"
    /\ tok' = TokOnUpserted(tok, k)
    /\ UNCHANGED <<fw, ing, sync, task, now, oauth, cat, db, http>>

\* lines 540-541 and 992: syncData maps its resources to callbacks, each of
\* which runs to its first await, the SELECT of its getOuraAccessToken call
\* (or further, when the cache answers), before any of them is resumed
SyncTokCalls ==
    /\ FreeSlots(tok) = TokSlots
    /\ tok.made + Cardinality(TokSlots) <= MaxTokCalls
    /\ tok' = TokOnCall(TokOnCall(tok, 1), 2)
    /\ UNCHANGED <<fw, ing, sync, task, now, oauth, cat, db, http>>

\* line 190: /oauth/callback upserts the token it exchanged the code for
AuthUpsert(token) ==
    /\ tok.upserts < MaxAuthUpserts
    /\ tok' = [TokWrite(tok, token, tok.clock) EXCEPT !.upserts = @ + 1]
    /\ UNCHANGED <<fw, ing, sync, task, now, oauth, cat, db, http>>

TokTick ==
    /\ tok.clock < MaxTokClock
    /\ tok' = [tok EXCEPT !.clock = @ + ClockStep]
    /\ UNCHANGED <<fw, ing, sync, task, now, oauth, cat, db, http>>

InitToken ==
    /\ fw = FwIdle
    /\ ing = IngVarIdle
    /\ sync = SyncIdle
    /\ task = <<>>
    /\ now = 0
    /\ oauth = OauthIdle
    /\ \E pat \in BOOLEAN, client \in BOOLEAN :
          tok = [TokIdle EXCEPT !.pat = pat, !.client = client]
    /\ cat = CatIdle
    /\ db = DbIdle
    /\ http = HttpIdle

NextToken ==
    \/ TokCall
    \/ SyncTokCalls
    \/ \E k \in TokSlots : TokRow(k)
    \/ \E k \in TokSlots, res \in ExchangeResults : TokExchange(k, res)
    \/ \E k \in TokSlots : TokUpserted(k)
    \/ \E token \in AuthResponses : AuthUpsert(token)
    \/ TokTick

SpecToken == InitToken /\ [][NextToken]_vars

InitRetry ==
    /\ fw = FwIdle
    /\ ing = IngVarIdle
    /\ sync = SyncIdle
    /\ task = <<>>
    /\ now = 0
    /\ oauth = OauthIdle
    /\ tok = TokIdle
    /\ cat = CatIdle
    /\ db = DbIdle
    /\ http = HttpIdle

NextRetry ==
    \/ \E m \in 0..DefaultMaxRetries : FwCall(m)
    \/ \E s \in Statuses : FwResponse(s)
    \/ FwReject
    \/ FwTimer

SpecRetry == InitRetry /\ [][NextRetry]_vars

(***************************************************************************)
(* Claims about fetchWithRetry (SpecRetry).                                *)
(***************************************************************************)
\* The statuses the retry policy names: 429 and every status from 500 up.
TransientStatus(s) == s = 429 \/ s >= 500

AllTransient(ss) == \A k \in 1..Len(ss) : TransientStatus(ss[k])

\* C6: when every attempt of one fetchWithRetry call is answered with 429 or a
\* status >= 500, the call never makes more than 1 + maxRetries attempts, the
\* answer to attempt 1 + maxRetries ends it, and it ends by returning that last
\* response (not by throwing) after exactly 1 + maxRetries attempts.
C6_RetryBound ==
    (fw.pc \notin {"idle", "threw"} /\ AllTransient(fw.statuses)) =>
        /\ fw.fetches <= 1 + fw.maxRetries
        /\ (Len(fw.statuses) = 1 + fw.maxRetries =>
                fw.pc = "returned" /\ fw.result = Last(fw.statuses))
        /\ (fw.pc = "returned" =>
                /\ fw.fetches = 1 + fw.maxRetries
                /\ Len(fw.statuses) = 1 + fw.maxRetries)

C6_Witness ==
    /\ fw.pc = "returned"
    /\ fw.maxRetries = DefaultMaxRetries
    /\ fw.statuses = <<503, 503, 503, 503>>
    /\ fw.fetches = 4
    /\ fw.result = 503

\* C7: within the retry budget a response is followed by another attempt if
\* and only if its status is 429 or >= 500. A response with any other status
\* (2xx, 3xx, 4xx but 429) is returned at once, at whatever attempt it comes:
\* no attempt and no backoff delay follows it. Every response that was followed
\* by another attempt had status 429 or >= 500, and a 429 or >= 500 response
\* ends the call only when it is the answer to attempt 1 + maxRetries.
C7_RetrySelectivity ==
    Len(fw.statuses) >= 1 =>
        LET n == Len(fw.statuses)
            last == fw.statuses[n]
        IN  /\ \A k \in 1..(n - 1) : TransientStatus(fw.statuses[k])
            /\ ~TransientStatus(last) =>
                    /\ fw.pc = "returned"
                    /\ fw.result = last
                    /\ fw.fetches = n
                    /\ Len(fw.delays) = n - 1
            /\ (TransientStatus(last) /\ n < 1 + fw.maxRetries) =>
                    /\ fw.pc \in {"backoff", "fetch", "threw"}
                    /\ Len(fw.delays) = n

C7_Witness ==
    /\ fw.pc = "returned"
    /\ fw.statuses = <<503, 429, 404>>
    /\ fw.fetches = 3
    /\ Len(fw.delays) = 2
    /\ fw.result = 404
(***************************************************************************)
(* Claims about syncData (SpecSync).                                       *)
(***************************************************************************)
Windowed(n) == task[n].r.queryMode # "none"

Threw(n) == task[n].ic.pc = "threw"

CeilDiv(a, b) == (a + b - 1) \div b

\* the chunk size the design gives each resource
ChunkLimit(n) == IF n = "heartrate" THEN 29 ELSE 90

\* the ingestResource calls a resource is due in this sync
DueCalls(n) ==
    IF Windowed(n) THEN CeilDiv(sync.totalDays, ChunkLimit(n)) ELSE 1

\* C1 (as stated): in a finished sync over one unwindowed and one windowed
\* resource in which every response for the windowed resource had status 500
\* (first attempts and retries) and the unwindowed resource's fetch succeeded,
\* the summary is successful = 1, failed = 1, the windowed resource being the
\* failed one.
C1_PartialFailure ==
    \A u, w \in DOMAIN task :
        ( /\ sync.pc = "done"
          /\ DOMAIN task = {u, w}
          /\ ~Windowed(u) /\ Windowed(w)
          /\ task[u].hist = "ok"
          /\ task[w].hist = "only500" ) =>
            /\ sync.successful = 1
            /\ sync.failed = 1
            /\ task[u].value.success
            /\ ~task[w].value.success

\* C1, what the code does in that sync: ingestResource logs the 500 and
\* returns, so the windowed resource is counted as successful too.
C1_CodeCountsSuccess ==
    \A u, w \in DOMAIN task :
        ( /\ sync.pc = "done"
          /\ DOMAIN task = {u, w}
          /\ ~Windowed(u) /\ Windowed(w)
          /\ task[u].hist = "ok"
          /\ task[w].hist = "only500" ) =>
            /\ sync.successful = 2
            /\ sync.failed = 0
            /\ task[u].saved => task[u].unsaved = 0

C1_Reached ==
    \E u, w \in DOMAIN task :
        /\ sync.pc = "done"
        /\ DOMAIN task = {u, w}
        /\ ~Windowed(u) /\ Windowed(w)
        /\ task[u].hist = "ok"
        /\ task[w].hist = "only500"
        /\ task[w].ic.attempt = DefaultMaxRetries + 1

\* C2: in a finished sync, whenever the task of one resource threw or one of
\* its fetches failed, every other selected resource whose own task did not
\* throw has settled after making all the ingestResource calls it was due (one
\* per window), and every batch of records it received is persisted.
C2_FailureIsolation ==
    sync.pc = "done" =>
        \A a, b \in DOMAIN task :
            (a # b /\ task[a].hist # "ok" /\ ~Threw(b)) =>
                /\ task[b].pc = "settled"
                /\ task[b].calls = DueCalls(b)
                /\ task[b].unsaved = 0

C2_Witness ==
    \E a, b \in DOMAIN task :
        /\ sync.pc = "done"
        /\ a # b
        /\ Threw(a) /\ ~task[a].value.success
        /\ ~Threw(b) /\ task[b].value.success
        /\ task[b].calls = DueCalls(b) /\ DueCalls(b) >= 2
        /\ task[b].saved /\ task[b].unsaved = 0

\* the resources of the catalog that pass the filter
SelectedCount ==
    Cardinality({k \in DOMAIN sync.catalog :
                    \/ sync.resourceFilter = NoFilter
                    \/ sync.catalog[k].resource \in sync.resourceFilter})

\* C3: once all tasks have settled and the summary is made, successful +
\* failed is the number of selected resources (catalog intersected with the
\* filter): each one is counted exactly once, as the success or failure its
\* task settled with.
C3_SummaryComplete ==
    sync.pc = "done" =>
        /\ sync.successful + sync.failed = SelectedCount
        /\ Cardinality(DOMAIN task) = SelectedCount
        /\ sync.successful = Cardinality({n \in DOMAIN task : task[n].value.success})
        /\ sync.failed = Cardinality({n \in DOMAIN task : ~task[n].value.success})

C3_Witness ==
    /\ sync.pc = "done"
    /\ Len(sync.catalog) = 3
    /\ SelectedCount = 2
    /\ sync.successful = 1
    /\ sync.failed = 1

\* C4: in a finished sync in which every fetch succeeded, ingestResource was
\* called exactly once for each unwindowed resource and exactly
\* ceil(totalDays / chunk) times for each windowed one (chunk 29 for heartrate,
\* 90 otherwise), and every resource is counted successful; in particular
\* sync(3, 0, no filter) over one unwindowed and one date-windowed resource
\* calls it once for each and reports successful = 2, failed = 0.
C4_FetchCounts ==
    (sync.pc = "done" /\ \A n \in DOMAIN task : task[n].hist = "ok") =>
        /\ \A n \in DOMAIN task :
              task[n].calls = DueCalls(n) /\ task[n].value.requests = DueCalls(n)
        /\ sync.successful = SelectedCount
        /\ sync.failed = 0
        /\ ( /\ sync.totalDays = 3 /\ sync.offsetDays = 0
              /\ sync.resourceFilter = NoFilter
              /\ sync.catalog = <<DailySleep, PersonalInfo>> ) =>
                /\ task["daily_sleep"].calls = 1
                /\ task["personal_info"].calls = 1
                /\ sync.successful = 2

C4_Witness ==
    /\ sync.pc = "done"
    /\ sync.totalDays = 3 /\ sync.offsetDays = 0 /\ sync.resourceFilter = NoFilter
    /\ sync.catalog = <<DailySleep, PersonalInfo>>
    /\ \A n \in DOMAIN task : task[n].hist = "ok"
    /\ task["daily_sleep"].calls = 1 /\ task["personal_info"].calls = 1
    /\ sync.successful = 2 /\ sync.failed = 0

C4_WitnessManyWindows ==
    /\ sync.pc = "done"
    /\ \A n \in DOMAIN task : task[n].hist = "ok"
    /\ "heartrate" \in DOMAIN task
    /\ task["heartrate"].calls = 3

\* days from a window's start date to its end date
Span(w) == w.endDate - w.startDate

\* C5 (as stated): every window passed to ingestResource spans at most 29 days
\* from its start date to its end date for heartrate and at most 90 days for
\* every other windowed resource, the dates being those computed from the
\* clock when the window was built.
C5_ChunkSpan ==
    \A n \in DOMAIN task :
        (Windowed(n) /\ task[n].calls >= 1) => Span(task[n].window) <= ChunkLimit(n)

\* C5, what the code guarantees: the two dates come from two reads of the
\* clock, so the span can exceed the chunk size by the days the clock moved
\* between them.
C5_CodeSpan ==
    \A n \in DOMAIN task :
        (Windowed(n) /\ task[n].calls >= 1) =>
            /\ Span(task[n].window) <= ChunkLimit(n) + 1
            /\ Span(task[n].window) >= 1

C5_Reached30 ==
    /\ "heartrate" \in DOMAIN task
    /\ task["heartrate"].calls >= 1
    /\ Span(task["heartrate"].window) = 30

(***************************************************************************)
(* Claims about ingestResource's pagination (SpecPage).                    *)
(***************************************************************************)
\* C8 (as stated): for a paginated resource whose every response is a success
\* carrying a continuation token, one ingestResource call issues at most 1000
\* page requests; once it has reached page 1000 it has emitted the safeguard
\* event and returned.
C8_PaginationCap ==
    (ing.c.paginated /\ ing.endless) =>
        /\ ing.c.requests <= MaxPages
        /\ (ing.c.page >= MaxPages => ing.c.safeguard /\ ing.c.pc = "returned")

\* C8, what the code does: the call does end, with the safeguard event, but
\* only after page request 1001.
C8_CodeStopsAt1001 ==
    (ing.c.paginated /\ ing.endless) =>
        /\ ing.c.requests <= MaxPages + 1
        /\ (ing.c.safeguard => ing.c.pc = "returned" /\ ing.c.requests = MaxPages + 1)
        /\ (ing.c.page > MaxPages => ing.c.safeguard)

C8_Reached1001 ==
    /\ ing.c.paginated /\ ing.endless
    /\ ing.c.pc = "returned" /\ ing.c.safeguard
    /\ ing.c.requests = MaxPages + 1
(***************************************************************************)
(* Claims about /oauth/callback (SpecAuth).                                *)
(***************************************************************************)
\* C9: with callbacks handled one after the other, at most one callback
\* succeeds per state token; a callback whose state was never issued, or was
\* found by an earlier callback, ends with InvalidState straight from the
\* lookup, without a token exchange and without a credential write.
C9_StateSingleUse ==
    /\ \A s \in StatePool : oauth.okCount[s] <= 1
    /\ (oauth.call.pc # "idle" /\ oauth.call.pc # "lookup" /\ oauth.call.prior) =>
            /\ oauth.call.pc = "done"
            /\ oauth.call.outcome = "InvalidState"
            /\ ~oauth.call.exchanged
            /\ ~oauth.call.wrote
            /\ oauth.cred = oauth.call.credBefore

C9_Witness ==
    /\ oauth.okCount["s1"] = 1
    /\ oauth.call.state = "s1"
    /\ oauth.call.prior
    /\ oauth.call.pc = "done"
    /\ oauth.call.outcome = "InvalidState"
    /\ oauth.cred # NoCred

\* C10: a callback that finds its state more than 15 minutes after the state
\* was created ends with ExpiredState, the state's row deleted, no token
\* exchange made and the credential record as it was; a callback that finds
\* its state at most 15 minutes old is not rejected as expired.
C10_StateExpiry ==
    oauth.call.found =>
        /\ oauth.call.age > 15 =>
                /\ oauth.call.pc \in {"deleteExpired", "done"}
                /\ ~oauth.call.exchanged
                /\ ~oauth.call.wrote
                /\ oauth.cred = oauth.call.credBefore
                /\ oauth.call.pc = "done" =>
                        /\ oauth.call.outcome = "ExpiredState"
                        /\ oauth.call.state \notin DOMAIN oauth.states
        /\ oauth.call.age <= 15 =>
                /\ oauth.call.pc # "deleteExpired"
                /\ oauth.call.outcome # "ExpiredState"

C10_Witness ==
    /\ oauth.call.found
    /\ oauth.call.age = 16
    /\ oauth.call.pc = "done"
    /\ oauth.call.outcome = "ExpiredState"
    /\ oauth.call.state \notin DOMAIN oauth.states
    /\ oauth.cred # NoCred

C10_WitnessAtTtl ==
    /\ oauth.call.found
    /\ oauth.call.age = 15
    /\ oauth.call.pc = "done"
    /\ oauth.call.outcome = "ok"
(***************************************************************************)
(* Claims about getOuraAccessToken and the credential row (SpecToken).     *)
(***************************************************************************)
\* the step is one of call k
StepBy(k) == tok'.calls[k] # tok.calls[k]

\* call k ends in this step
Returned(k) ==
    /\ tok'.calls[k].pc = "done"
    /\ \/ tok.calls[k].pc \in {"select", "exchange", "upsert"}
       \/ tok'.made # tok.made /\ k = FirstFree(tok)

\* call k's upsert reaches the table in this step
Upserts(k) == tok.calls[k].pc = "upsert" /\ tok'.calls[k].pc = "done"

\* an upsert reaches the table in this step
Wrote == tok'.upserts # tok.upserts \/ \E k \in TokSlots : Upserts(k)

\* the Date.now() its expires_at was computed from
WriteTime ==
    IF tok'.upserts # tok.upserts THEN tok.clock
    ELSE tok.calls[CHOOSE k \in TokSlots : Upserts(k)].upsertAt

\* C11: once the credential row holds a refresh token it never loses it, and
\* an upsert of a token response without a refresh token keeps the stored
\* refresh token while the access token and the expiry become the response's.
C11_RefreshPreserved ==
    [][/\ tok.row.refresh_token # 0 => tok'.row.refresh_token # 0
       /\ Wrote =>
            LET w == tok'.written IN
              /\ w.refresh_token = 0 =>
                     tok'.row.refresh_token = tok.row.refresh_token
              /\ tok'.row.access_token = w.access_token
              /\ IF w.expires_in = NoExpiry
                 THEN tok'.row.expires_at = NoExpiry
                 ELSE /\ tok'.row.expires_at >= WriteTime
                      /\ tok'.row.expires_at <= WriteTime + w.expires_in]_vars

\* a refresh whose response had no refresh token replaced the access token of
\* a row that still holds the refresh token of the authorization
C11_Witness ==
    /\ tok.written.refresh_token = 0
    /\ tok.written.access_token = 2
    /\ tok.row.access_token = 2
    /\ tok.row.refresh_token = 1
    /\ \E k \in TokSlots : tok.calls[k].source = "refresh"

\* C12: a token returned from tokenCache or from the credential row has a
\* recorded expiry at least 60 seconds after the time of the return (a row
\* without expires_at records none).
C12_SafetyMargin ==
    [][\A k \in TokSlots :
         Returned(k) /\ tok'.calls[k].outcome = "ok" =>
           LET c == tok'.calls[k] IN
             /\ c.source = "cache" =>
                  /\ c.token = tok.cache.token
                  /\ tok.cache.expiresAt >= tok.clock + 60
             /\ c.source = "store" =>
                  /\ c.token = tok.row.access_token
                  /\ \/ tok.row.expires_at = NoExpiry
                     \/ tok.row.expires_at >= tok.clock + 60]_vars

\* one call was served from the row, whose recorded expiry lies ahead, and
\* another from the cache
C12_Witness ==
    /\ tok.row.expires_at # NoExpiry
    /\ tok.row.expires_at >= tok.clock + 60
    /\ \E k \in TokSlots :
          tok.calls[k].outcome = "ok" /\ tok.calls[k].source = "store"
    /\ \E k \in TokSlots :
          tok.calls[k].outcome = "ok" /\ tok.calls[k].source = "cache"

\* a row whose token is recorded to expire within the next 60 seconds, but
\* not yet, is being refreshed
C12_WitnessRefreshInstead ==
    \E k \in TokSlots :
        /\ tok.calls[k].pc = "exchange"
        /\ tok.row.expires_at > tok.clock
        /\ tok.row.expires_at < tok.clock + 60

\* C13: a call makes at most one SELECT, one upsert and one token request,
\* and none of them when it is served from tokenCache.
C13_CallEffects ==
    \A k \in TokSlots :
        LET c == tok.calls[k] IN
          /\ c.reads <= 1 /\ c.writes <= 1 /\ c.exchanges <= 1
          /\ c.source = "cache" => c.reads + c.writes + c.exchanges = 0

\* one call did all three once, the other was served from the cache
C13_Witness ==
    /\ \E k \in TokSlots :
          /\ tok.calls[k].pc = "done" /\ tok.calls[k].reads = 1
          /\ tok.calls[k].writes = 1 /\ tok.calls[k].exchanges = 1
    /\ \E k \in TokSlots :
          tok.calls[k].pc = "done" /\ tok.calls[k].source = "cache"

\* the row holds neither an access token that passes the expiry test nor a
\* refresh token
NothingUsable(row, t) ==
    \/ row.access_token = 0
    \/ /\ row.expires_at # NoExpiry
       /\ row.expires_at <= t + 60
       /\ row.refresh_token = 0

\* C14: a call throws NoCredential exactly when it missed the cache, the row
\* it reads holds nothing usable and no OURA_PAT is set; it then has sent no
\* token request and no upsert, and row and cache are as before.
C14_NoCredential ==
    [][\A k \in TokSlots :
         LET resolves == tok.calls[k].pc = "select" /\ StepBy(k)
             nothing == NothingUsable(tok.row, tok.clock) /\ ~tok.pat
             c == tok'.calls[k]
         IN  /\ Returned(k) /\ c.outcome = "NoCredential" =>
                  /\ resolves /\ nothing
                  /\ c.exchanges = 0 /\ c.writes = 0 /\ c.cacheSets = 0
                  /\ tok'.row = tok.row /\ tok'.cache = tok.cache
             /\ resolves /\ nothing =>
                  c.pc = "done" /\ c.outcome = "NoCredential"]_vars

\* NoCredential with an expired row without refresh token (and no OURA_PAT)
C14_Witness ==
    \E k \in TokSlots :
        /\ tok.calls[k].outcome = "NoCredential"
        /\ tok.row.access_token # 0
        /\ tok.row.refresh_token = 0
        /\ tok.row.expires_at # NoExpiry

\* NoCredential without a row
C14_WitnessNoRow ==
    \E k \in TokSlots :
        tok.calls[k].outcome = "NoCredential" /\ tok.row.access_token = 0

\* C15: a failed token request ends the call with the error, after that one
\* request, and no step of a call that does not return a token changes the
\* credential row or tokenCache.
C15_ExchangeFailure ==
    [][\A k \in TokSlots :
         LET c == tok'.calls[k] IN
           /\ c.answer \notin {"none", "ok"} =>
                /\ c.pc = "done" /\ c.outcome = "ExchangeFailed"
                /\ c.exchanges = 1 /\ c.writes = 0 /\ c.cacheSets = 0
           /\ StepBy(k) /\ ~(c.pc = "done" /\ c.outcome = "ok") =>
                tok'.row = tok.row /\ tok'.cache = tok.cache]_vars

\* a token request failed while the row held a refresh token and the cache an
\* (old) entry
C15_Witness ==
    \E k \in TokSlots :
        /\ tok.calls[k].outcome = "ExchangeFailed"
        /\ tok.calls[k].answer = "malformed"
        /\ tok.row.refresh_token # 0
        /\ tok.cache.token # 0

(***************************************************************************)
(* Claims about a sync whose access token cannot be obtained (SpecSync).   *)
(***************************************************************************)
\* the last ingestResource call of task n got no access token
TokenFailed(n) == task[n].ic.logged = "token"

\* C16 (as stated): in a finished sync, a resource whose ingestResource call
\* could not get an access token had the failure thrown to its task, and is
\* counted as failed.
C16_TokenFailureCounted ==
    sync.pc = "done" =>
        \A n \in DOMAIN task :
            TokenFailed(n) =>
                /\ task[n].ic.pc = "threw"
                /\ ~task[n].value.success
                /\ sync.failed >= 1

\* C16, what the code does: ingestResource catches the failure, logs it and
\* returns, so the task returns success.
C16_CodeCountsSuccess ==
    sync.pc = "done" =>
        \A n \in DOMAIN task :
            TokenFailed(n) =>
                /\ task[n].ic.pc = "returned"
                /\ task[n].ic.requests = 0
                /\ task[n].value.success

\* every selected resource failed to get a token, and the summary has no
\* failure
C16_Reached ==
    /\ sync.pc = "done"
    /\ DOMAIN task # {}
    /\ \A n \in DOMAIN task : TokenFailed(n) /\ task[n].calls = 1
    /\ sync.failed = 0

(***************************************************************************)
(* Claims about a sync whose API description cannot be fetched (SpecSync). *)
(***************************************************************************)
\* the sync has nothing to do and says so
NothingToSync ==
    /\ sync.pc \in {"running", "done"}
    /\ sync.catalog = <<>>
    /\ DOMAIN task = {}
    /\ sync.pc = "done" =>
          sync.successful = 0 /\ sync.failed = 0 /\ sync.totalRequests = 0

\* C17 (as stated): when the KV cache served nothing and the fetch of the API
\* description failed, loadOuraResourcesFromOpenApi returned the empty list
\* and the sync goes on with no resource task, no request and no write, to a
\* summary of 0 successful and 0 failed.
C17_LoadFailureIsEmptySync ==
    sync.loadError # "none" => NothingToSync

\* C17, what the code does: that holds when the fetch is answered (a non-2xx
\* status, or a body that is no JSON), and when the fetch rejects so do
\* loadOuraResourcesFromOpenApi and syncData.
C17_CodeRejects ==
    /\ sync.loadError \in {"nonok", "invalid"} => NothingToSync
    /\ sync.loadError = "reject" => sync.pc = "rejected" /\ DOMAIN task = {}

C17_Reached == sync.loadError = "reject" /\ sync.pc = "rejected"

\* the answered failures do end in the empty summary
C17_ReachedEmpty == sync.loadError = "nonok" /\ sync.pc = "done"

(***************************************************************************)
(* Claims about loadOuraResourcesFromOpenApi (SpecCatalog).                *)
(***************************************************************************)
\* what a call that found no KV entry returns for the fetch's answer
ListOnMiss(c) == IF c.res = "nonok" THEN <<>> ELSE BuildResources(c.doc)

\* C18: a failed KV read is followed by the fetch of the description and the
\* call returns what it returns on a miss; a failed KV write still returns
\* the list just built; the call throws for neither.
C18_CacheNotRequired ==
    LET c == cat.call IN
      /\ c.read = "error" => c.pc \in {"fetch", "put", "returned", "threw"}
      /\ (c.read \in {"error", "miss"} /\ c.pc = "returned") =>
            c.res # "none" /\ c.result = ListOnMiss(c)
      /\ c.put = "error" => c.pc = "returned" /\ c.result = BuildResources(c.doc)
      /\ c.pc = "threw" => c.res = "reject"

\* both KV operations failed while an entry was held, and the list of the
\* description fetched was returned
C18_Witness ==
    /\ cat.call.read = "error"
    /\ cat.call.put = "error"
    /\ cat.call.pc = "returned"
    /\ cat.call.result = <<DailySleep, Heartrate, PersonalInfo>>
    /\ cat.kv.held
    /\ cat.kv.list # cat.call.result

(***************************************************************************)
(* The store (SpecStore).                                                  *)
(***************************************************************************)
\* the step is a saveToD1 call with the arguments of the call before it
Repeats == db'.saves = db.saves + 1 /\ db'.last = db.last

Tables(D) ==
    <<D.daily_summaries, D.sleep_episodes, D.heart_rate_samples,
      D.activity_logs, D.user_tags>>

\* the rows of daily_summaries without their updated_at
Unstamped(table) ==
    [i \in 1..Len(table) |-> [c \in Columns.daily_summaries \ {"updated_at"} |-> table[i][c]]]

\* the days the records of a batch name
DaysOf(data) == {OrNull(Get(data[i], "day")) : i \in 1..Len(data)}

RowsOf(table, k) == {i \in 1..Len(table) : table[i].day = k}

\* C20: merge-write commutativity on daily aggregates. Once a daily_readiness
\* record and a daily_sleep record for the same date have been applied, in
\* whichever order, the table holds one row for the date, its readiness
\* columns as the readiness record bound them and its sleep columns as the
\* sleep record bound them: neither update changed a column of the other.
C20_Commutative ==
    \A k \in {Day1.v, Day2.v} :
       LET r == <<"daily_readiness", <<k>>>>
           s == <<"daily_sleep", <<k>>>>
       IN (r \in DOMAIN db.written /\ s \in DOMAIN db.written) =>
            /\ Cardinality(RowsOf(db.daily_summaries, <<k>>)) = 1
            /\ \A i \in RowsOf(db.daily_summaries, <<k>>) :
                  /\ \A c \in Owned.daily_readiness :
                        db.daily_summaries[i][c] = db.written[r][c]
                  /\ \A c \in Owned.daily_sleep :
                        db.daily_summaries[i][c] = db.written[s][c]

\* daily_readiness, then daily_sleep for the same date
C20_Witness ==
    /\ db.saves = 2
    /\ db.last = <<"daily_sleep", <<Raw.SleepA>>>>
    /\ <<"daily_readiness", <<Day1.v>>>> \in DOMAIN db.written
    /\ Len(db.daily_summaries) = 1
    /\ db.daily_summaries[1].readiness_score = <<172>>
    /\ db.daily_summaries[1].sleep_score = <<150>>

\* daily_sleep, then daily_readiness for the same date
C20_WitnessOtherOrder ==
    /\ db.saves = 2
    /\ db.last = <<"daily_readiness", <<Raw.ReadinessA>>>>
    /\ Len(db.daily_summaries) = 1
    /\ db.daily_summaries[1].readiness_score = <<172>>
    /\ db.daily_summaries[1].sleep_score = <<150>>

\* the columns a resource's statement sets when the row exists
Sets(r) == IF r \in DailyResources THEN Owned[r] ELSE LogUpdates[r]

\* the rows two resources have both written: the table and the key agree
SameRow(x, y) ==
    /\ x[1] # y[1]
    /\ SharedKey[x[1]] = SharedKey[y[1]]
    /\ x[2] = y[2]

\* the rows of the table of resource r whose key is k
Rows(r, k) ==
    LET table == IF r \in DailyResources THEN db.daily_summaries
                 ELSE db.activity_logs
    IN {table[i] : i \in {j \in 1..Len(table) : table[j][SharedKey[r]] = k}}

\* C21: concurrent merge-writes. Once two different resources have written
\* the same row of a table, in whatever interleaving of their batches, every
\* column either of them sets holds what that resource bound last: no data
\* column depends on which writer ran last.
C21_WriterOrderFree ==
    \A x \in DOMAIN db.written, y \in DOMAIN db.written :
       SameRow(x, y) =>
          \A row \in Rows(x[1], x[2]) :
             \A c \in Sets(x[1]) : row[c] = db.written[x][c]

\* C21 on daily_summaries, where the code does as claimed: the eight daily
\* resources set disjoint columns, so every column holds what its resource
\* bound last.
C21_DailyWriterOrderFree ==
    \A x \in DOMAIN db.written, y \in DOMAIN db.written :
       (SameRow(x, y) /\ x[1] \in DailyResources) =>
          /\ Sets(x[1]) \cap Sets(y[1]) = {}
          /\ \A row \in Rows(x[1], x[2]) :
                \A c \in Sets(x[1]) : row[c] = db.written[x][c]

\* workout and session have written the same id, session last: the label the
\* workout bound is gone
C21_Reached ==
    /\ db.saves = 2
    /\ db.last = <<"session", <<Raw.SessionA>>>>
    /\ <<"workout", <<"a1">>>> \in DOMAIN db.written
    /\ Len(db.activity_logs) = 1
    /\ db.activity_logs[1].type = <<"workout">>
    /\ db.activity_logs[1].activity_label = <<"meditation">>

\* three daily resources have written the same date
C21_ReachedDaily ==
    /\ db.saves = 3
    /\ Len(db.daily_summaries) = 1
    /\ db.daily_summaries[1].readiness_score # Null
    /\ db.daily_summaries[1].activity_score # Null
    /\ db.daily_summaries[1].stress_index # Null

(***************************************************************************)
(* isReadOnlySql and the fetch handler (SpecSql, SpecHttp).                *)
(***************************************************************************)
\* word is a whole word of the text s: an item that is word, in any case,
\* with no word character on either side
HasWord(s, word) ==
    \E i \in 1..Len(s) :
       /\ Lower(s[i]) = word
       /\ \A j \in {i - 1, i + 1} \cap (1..Len(s)) : s[j] \notin WordItems

\* C22: isReadOnlySql accepts a statement only if, its leading comments
\* stripped and its whitespace collapsed, it begins with the word SELECT or
\* WITH, holds no ';', holds no mutation, schema or pragma keyword as a whole
\* word and names neither oura_oauth_tokens nor oura_oauth_states; and the
\* plain SELECT over daily_summaries is accepted.
C22_ReadOnlyOnly ==
    LET sql == http.req.sql.text
        n == collapse(stripLeadingSqlComments(sql))
    IN /\ http.accepted = "yes" =>
            /\ n # <<>>
            /\ Lower(n[1]) \in {"select", "with"}
            /\ Len(n) > 1 => n[2] \notin WordItems
            /\ ";" \notin {n[i] : i \in 1..Len(n)}
            /\ \A k \in MutationKeywords \cup {"oura_oauth_tokens", "oura_oauth_states"} :
                  ~HasWord(n, k)
       /\ (http.accepted # "none" /\ sql = SqlSamples.PlainSelect) =>
             http.accepted = "yes"

\* a statement is accepted whose leading comment holds a keyword and a ';'
C22_Witness ==
    /\ http.accepted = "yes"
    /\ http.req.sql.text = SqlSamples.Commented

\* the plain SELECT is accepted, the same over the credential table is not
C22_WitnessPlain ==
    /\ http.accepted = "yes"
    /\ http.req.sql.text = SqlSamples.PlainSelect

C22_WitnessRejected ==
    /\ http.accepted = "no"
    /\ http.req.sql.text = SqlSamples.TokenSelect


(***************************************************************************)
(* C23. On POST /api/sql a statement that isReadOnlySql refuses, or that   *)
(* is longer than 10,000 characters, or that comes with more than 100      *)
(* parameters, is never handed to oura_db.prepare, and the handler of the  *)
(* endpoint answers it with a 4xx status. The statement is the one the     *)
(* handler validates and would prepare: body.sql.trim(), '' when the body  *)
(* holds no string.                                                        *)
(***************************************************************************)
Rejectable(req) ==
    LET sql == TrimmedSql(req) IN
      \/ ~isReadOnlySql(sql.text)
      \/ sql.length > MaxSqlLength
      \/ req.params > MaxSqlParams

C23_RejectedUnprepared ==
    (http.pc # "idle" /\ http.req.path = "/api/sql" /\ http.req.method = "POST"
        /\ Rejectable(http.req)) =>
      /\ http.prepared = <<>>
      /\ http.reads = 0 /\ http.writes = 0
      /\ http.pc # "store"
      /\ (http.pc = "done" /\ http.route = "sql") => http.status \in 400..499

\* the three reasons, each alone, answered by the handler of the endpoint
C23_WitnessParams ==
    /\ http.pc = "done" /\ http.route = "sql" /\ http.status = 400
    /\ http.req.params > MaxSqlParams
    /\ isReadOnlySql(TrimmedSql(http.req).text)
    /\ TrimmedSql(http.req).length <= MaxSqlLength

C23_WitnessLength ==
    /\ http.pc = "done" /\ http.route = "sql" /\ http.status = 400
    /\ http.req.params <= MaxSqlParams
    /\ isReadOnlySql(TrimmedSql(http.req).text)
    /\ TrimmedSql(http.req).length > MaxSqlLength

C23_WitnessValidate ==
    /\ http.pc = "done" /\ http.route = "sql" /\ http.status = 400
    /\ http.req.params <= MaxSqlParams
    /\ http.req.json /\ ~isReadOnlySql(TrimmedSql(http.req).text)
    /\ TrimmedSql(http.req).length <= MaxSqlLength

\* a statement at the limits is prepared and run
C23_WitnessPrepared ==
    /\ http.pc = "done" /\ http.route = "sql" /\ http.status = 200
    /\ http.prepared = SqlSamples.PlainSelect
    /\ http.req.params = MaxSqlParams
    /\ http.req.sql.length = MaxSqlLength + 1 /\ http.req.sql.padding = 1

(***************************************************************************)
(* C24. A request that is not OPTIONS, whose path is none of /health,      *)
(* /favicon.ico, /favicon.svg and /oauth/callback, and whose Authorization *)
(* header is absent or differs from 'Bearer <GRAFANA_SECRET>' is answered  *)
(* 401 before the handler reads or writes the store, starts a sync,        *)
(* creates a pending state or calls the rate limiter.                      *)
(***************************************************************************)
Unauthorized(req) ==
    /\ req.method # "OPTIONS"
    /\ req.path \notin OpenPaths
    /\ req.auth # "right"

C24_UnauthorizedNoEffect ==
    (http.pc # "idle" /\ Unauthorized(http.req)) =>
      /\ http.pc = "done" /\ http.status = 401
      /\ http.limiter = 0 /\ http.reads = 0 /\ http.writes = 0
      /\ http.states = 0 /\ http.syncs = 0 /\ http.prepared = <<>>

\* the second request is refused although the first one, authorized, went through
C24_Witness ==
    /\ http.served = 2 /\ http.pc = "done" /\ http.status = 401
    /\ http.req.path = "/oauth/start" /\ http.req.auth = "wrong"

C24_WitnessAbsent ==
    /\ http.pc = "done" /\ http.status = 401
    /\ http.req.path = "/backfill" /\ http.req.auth = "absent"

\* the same paths with the right header do have effects
C24_WitnessAuthorized ==
    /\ http.pc = "done" /\ http.status = 302 /\ http.req.path = "/oauth/start"
    /\ http.states = 1 /\ http.limiter = 1


(***************************************************************************)
(* C25. When a sync over two resources starts with an empty token cache    *)
(* and a valid stored credential, the row of oura_oauth_tokens is queried  *)
(* once: of the two getOuraAccessToken calls the callbacks make, one sends *)
(* the SELECT and the other is answered by the cache.                      *)
(***************************************************************************)
SyncBegins == tok'.made = tok.made + Cardinality(TokSlots)

Selecting(T) == {k \in TokSlots : T.calls[k].pc = "select"}

C25_OneStoreRead ==
    [][(SyncBegins /\ tok.cache = NoCache /\ hasValidAccess(tok.row, tok.clock)
            /\ tok.row.access_token # 0) =>
          Cardinality(Selecting(tok')) = 1]_vars

\* what the code does: every callback of the sync sends its own SELECT
C25_EveryTaskReads ==
    [][(SyncBegins /\ ~CacheFresh(tok.cache, tok.clock)) =>
          /\ Selecting(tok') = TokSlots
          /\ \A k \in TokSlots : tok'.calls[k].reads = 1]_vars

\* both SELECTs of one sync have been answered with the valid row
C25_Reached ==
    /\ \A k \in TokSlots :
          /\ tok.calls[k].pc = "done" /\ tok.calls[k].source = "store"
          /\ tok.calls[k].reads = 1
    /\ tok.made = Cardinality(TokSlots)

\* with a fresh cache no callback of the sync queries the store
C25_ReachedCached ==
    /\ \A k \in TokSlots :
          tok.calls[k].pc = "done" /\ tok.calls[k].source = "cache"
    /\ tok.made = MaxTokCalls


(***************************************************************************)
(* C26. Once a fetch of a resource has failed for some window (a           *)
(* non-success response came back after the retries, the body was no JSON  *)
(* object, or the fetch threw), the resource is failed and no request is   *)
(* issued for a later window of that resource in the same sync.            *)
(***************************************************************************)
FailedAndStopped(t) ==
    /\ t.calls = t.failed.call
    /\ t.pc = "settled" /\ ~t.value.success

C26_FailureStopsResource ==
    \A n \in DOMAIN task : task[n].failed # NoFailure => FailedAndStopped(task[n])

\* what the code does: only a thrown error fails and stops the resource
C26_ThrownStopsResource ==
    \A n \in DOMAIN task :
       task[n].failed.kind = "threw" => FailedAndStopped(task[n])

\* a request for a later window is out after a window's fetch came back 404,
\* and the resource ends as a success
C26_Reached ==
    \E n \in DOMAIN task :
       /\ task[n].failed = [call |-> 1, kind |-> "http"]
       /\ task[n].calls = 2 /\ task[n].ic.pc = "fetch"

C26_ReachedSuccess ==
    \E n \in DOMAIN task :
       /\ task[n].failed.kind = "json"
       /\ task[n].calls > task[n].failed.call
       /\ task[n].pc = "settled" /\ task[n].value.success

C26_ReachedThrown ==
    \E n \in DOMAIN task :
       /\ task[n].failed.kind = "threw" /\ task[n].pc = "settled"
       /\ task[n].r.queryMode # "none"


(***************************************************************************)
(* C27. The windows of one resource are fetched strictly in order: when    *)
(* the callback calls ingestResource for its next window, the call for the *)
(* window before has returned, so none of its page requests is in flight   *)
(* and every batch of records it received is persisted. The callbacks of   *)
(* different resources take their steps in any order.                      *)
(***************************************************************************)
NextWindow(n) ==
    /\ n \in DOMAIN task /\ n \in DOMAIN task'
    /\ task'[n].calls = task[n].calls + 1

C27_WindowsInOrder ==
    [][\A n \in DOMAIN task :
          NextWindow(n) =>
             /\ task[n].ic.pc \in {"token", "fetch", "save"}
             /\ task'[n].unsaved = 0
             /\ task'[n].ic = IngStart(task[n].r.paginated)
             /\ task'[n].i = task[n].i + getChunkDaysForResource(task[n].r)
             /\ task'[n].requestCount = task[n].calls]_vars

\* a resource is at its second window, the first one stored, while another
\* resource still waits for its first response
C27_Witness ==
    \E n \in DOMAIN task, m \in DOMAIN task :
       /\ task[n].calls = 2 /\ task[n].saved /\ task[n].ic.pc = "fetch"
       /\ task[m].calls = 1 /\ task[m].ic.pc = "fetch" /\ task[m].ic.requests = 1

\* ... and the other way round: that other resource is done while the first
\* window of the windowed one is still being saved
C27_WitnessOtherOrder ==
    \E n \in DOMAIN task, m \in DOMAIN task :
       /\ task[n].calls = 1 /\ task[n].ic.pc = "save" /\ task[n].i = 0
       /\ 0 + getChunkDaysForResource(task[n].r) < sync.totalDays
       /\ task[m].pc = "settled" /\ task[m].value.success


(***************************************************************************)
(* C28. Within one fetchWithRetry call the delay before the first retry is *)
(* the base, 250 ms, and each later delay is twice the one before it: 250, *)
(* 500, 1000 ms for the three retries.                                     *)
(***************************************************************************)
Doubling(delays) ==
    \A i \in 2..Len(delays) : delays[i] = 2 * delays[i - 1]

C28_BackoffSchedule ==
    /\ fw.delays # <<>> => fw.delays[1] = BackoffBaseMs
    /\ Doubling(fw.delays)

\* what the code does: attempt is incremented before the delay is computed,
\* so the first delay is already twice the base
C28_CodeSchedule ==
    /\ fw.delays # <<>> => fw.delays[1] = 2 * BackoffBaseMs
    /\ Doubling(fw.delays)

\* the three retries of a call were waited for
C28_Reached == fw.delays = <<500, 1000, 2000>> /\ fw.pc = "returned"


(***************************************************************************)
(* C29. In one ingestResource call for a paginated resource the first      *)
(* request carries no continuation token; each later request carries the   *)
(* token of the response just before it, and is sent only after the        *)
(* records of that response, if it had any, were given to saveToD1 and     *)
(* saved; the call ends at the first response without a token. For a       *)
(* resource that is not paginated one request is made, whatever token the  *)
(* response carries.                                                       *)
(***************************************************************************)
NextRequest == ing'.c.requests = ing.c.requests + 1 /\ ing.c.requests >= 1

PageProtocol ==
    /\ ing.c.requests = 1 => ing.c.nextToken = NoToken
    /\ (ing.last.page /\ ing.last.token = NoToken) =>
          ing.c.pc \in {"save", "returned", "threw"}
    /\ ~ing.c.paginated => ing.c.requests <= 1 /\ ing.c.nextToken = NoToken
    /\ ing.c.pc = "save" => ing.last.data /\ ing.c.respToken = ing.last.token

C29_PaginationProtocol ==
    /\ []PageProtocol
    /\ [][NextRequest =>
            /\ ing.c.paginated
            /\ ing'.last.token # NoToken
            /\ ing'.c.nextToken = ing'.last.token
            /\ ing'.last.data => ing.c.pc = "save" /\ ing'.last = ing.last]_vars

\* the second page is requested with the token of the first, whose records
\* are saved, and the call ends at a page without a token
C29_Witness ==
    /\ ing.c.paginated /\ ing.c.pc = "returned" /\ ing.c.requests = 3
    /\ ing.c.nextToken = NoToken /\ ing.c.logged = "none"
    /\ ing.last = [page |-> TRUE, token |-> NoToken, data |-> TRUE]

\* a resource that is not paginated: its one response carries a token
C29_WitnessNotPaginated ==
    /\ ~ing.c.paginated /\ ing.c.pc = "returned" /\ ing.c.requests = 1
    /\ ing.last.page /\ ing.last.token # NoToken


(***************************************************************************)
(* C30. For every endpoint of the description the catalog assigns          *)
(* "datetime" if a datetime start or end parameter is declared (date       *)
(* parameters or not), otherwise "date" if a date parameter is declared,   *)
(* otherwise "none"; and every resource of the override set (sleep,        *)
(* sleep_time, workout) is assigned "date".                                *)
(***************************************************************************)
ByParams(p) ==
    IF p.params \cap {"start_datetime", "end_datetime"} # {} THEN "datetime"
    ELSE IF p.params \cap {"start_date", "end_date"} # {} THEN "date"
    ELSE "none"

\* the mode the catalog built at this state gives the resource of entry p
ModeIn(out, p) ==
    {out[i].queryMode : i \in {j \in DOMAIN out : out[j].resource = p.resource}}

C30_QueryModes ==
    cat.call.pc = "put" =>
       \A p \in {q \in cat.call.doc.paths : Listed(q)} :
          ModeIn(cat.call.out, p) =
             {IF p.resource \in {"sleep", "sleep_time", "workout"} THEN "date"
              ELSE ByParams(p)}

\* C30 as the code has it: the override applies to a resource that declares
\* no range parameter, and to no other; a resource of the override set that
\* declares a datetime parameter is "datetime"
C30_OverrideWhenUndeclared ==
    cat.call.pc = "put" =>
       \A p \in {q \in cat.call.doc.paths : Listed(q)} :
          ModeIn(cat.call.out, p) =
             {IF p.resource \in {"sleep", "sleep_time", "workout"}
                    /\ ByParams(p) = "none"
              THEN "date" ELSE ByParams(p)}

\* workout declares datetime parameters and is catalogued as "datetime";
\* in the same catalog sleep_time, without parameters, is "date" and session,
\* with both kinds, "datetime"
C30_Reached ==
    /\ cat.call.pc = "put" /\ cat.call.doc = Docs.Mixed
    /\ ModeIn(cat.call.out, Paths.Workout) = {"datetime"}
    /\ ModeIn(cat.call.out, Paths.SleepTime) = {"date"}
    /\ ModeIn(cat.call.out, Paths.Session) = {"datetime"}
    /\ ModeIn(cat.call.out, Paths.DailySleep) = {"date"}


(***************************************************************************)
(* C31. isReadOnlySql refuses every statement in whose normalized text a   *)
(* transaction-control keyword (BEGIN, COMMIT, ROLLBACK, ...) stands as a  *)
(* whole word, as it refuses the mutation, schema and pragma keywords.     *)
(***************************************************************************)
TransactionKeywords ==
    {"begin", "commit", "rollback", "savepoint", "release", "end"}

C31_TransactionRefused ==
    LET n == collapse(stripLeadingSqlComments(http.req.sql.text)) IN
      http.accepted = "yes" => \A k \in TransactionKeywords : ~HasWord(n, k)

\* what the code does: the keywords of line 1183 are refused, and they hold
\* no transaction-control keyword
C31_ListedRefused ==
    LET n == collapse(stripLeadingSqlComments(http.req.sql.text)) IN
      /\ http.accepted = "yes" => \A k \in MutationKeywords : ~HasWord(n, k)
      /\ MutationKeywords \cap TransactionKeywords = {}

\* a statement with BEGIN and ROLLBACK as whole words is accepted
C31_Reached ==
    /\ http.accepted = "yes"
    /\ http.req.sql.text = SqlSamples.Transaction

\* while a statement with a keyword of the list is refused
C31_ReachedRefused ==
    /\ http.accepted = "no"
    /\ http.req.sql.text = <<"select", " ", "pragma">>


(***************************************************************************)
(* C32. The windows of a windowed resource are built for i = 0, c, 2c, ... *)
(* below totalDays; each ends on the date the window before it starts on,  *)
(* and no day between them is left uncovered, even if the clock advances   *)
(* between the windows.                                                    *)
(***************************************************************************)
C32_WindowsAbut ==
    [][\A n \in DOMAIN task :
          (NextWindow(n) /\ task[n].calls >= 1) =>
             /\ task'[n].i = task[n].i + getChunkDaysForResource(task[n].r)
             /\ task'[n].i < sync.totalDays
             /\ task'[n].window.endDate = task[n].window.startDate]_vars

\* what the code guarantees: every window is dated by its own reads of the
\* clock, so a window built after midnight ends a day after the start of the
\* window before it; the windows overlap, no day is left out
C32_WindowsOverlapOrAbut ==
    [][\A n \in DOMAIN task :
          (NextWindow(n) /\ task[n].calls >= 1) =>
             /\ task'[n].i = task[n].i + getChunkDaysForResource(task[n].r)
             /\ task'[n].i < sync.totalDays
             /\ task'[n].window.endDate >= task[n].window.startDate
             /\ task'[n].window.endDate <= task[n].window.startDate + MaxClockSteps]_vars


(***************************************************************************)
(* C33. When two /oauth/callback requests carrying the same valid,         *)
(* unexpired state interleave at the store calls (both look the state up   *)
(* before either deletes it), at most one of them goes on to the token     *)
(* exchange and the credential upsert.                                     *)
(***************************************************************************)
\* both requests found the row of the same state, unexpired
BothFound ==
    /\ oauth.call.state = oauth.rival.state
    /\ oauth.call.found /\ oauth.rival.found
    /\ ~StateExpired(oauth.call.age) /\ ~StateExpired(oauth.rival.age)

C33_OneCallbackProceeds ==
    /\ BothFound => ~(oauth.call.exchanged /\ oauth.rival.exchanged)
    /\ \A s \in StatePool : oauth.okCount[s] <= 1

\* both requests were answered 200, each after its own exchange and upsert
C33_Reached ==
    /\ BothFound
    /\ oauth.call.outcome = "ok" /\ oauth.rival.outcome = "ok"
    /\ oauth.call.wrote /\ oauth.rival.wrote
    /\ oauth.okCount["s1"] = 2

\* a request that looks the state up after the other one's DELETE is refused
C33_ReachedSequential ==
    /\ oauth.call.state = oauth.rival.state
    /\ oauth.call.outcome = "ok" /\ oauth.rival.outcome = "InvalidState"


(***************************************************************************)
(* C34. Across the getOuraAccessToken calls that the concurrently running  *)
(* resource tasks of one sync make while the stored access token is        *)
(* expired, a given stored refresh token is sent to the token endpoint in  *)
(* at most one exchange request.                                           *)
(***************************************************************************)
Refreshing(T) == {k \in TokSlots : T.calls[k].pc \in {"exchange", "upsert"}}

C34_RefreshTokenSentOnce ==
    \A k \in Refreshing(tok), j \in Refreshing(tok) :
       k # j => tok.calls[k].refreshToken # tok.calls[j].refreshToken

\* two calls have each posted the same refresh token and wait for the answer
C34_Reached ==
    /\ \A k \in TokSlots : tok.calls[k].pc = "exchange"
    /\ tok.calls[1].refreshToken = tok.calls[2].refreshToken
    /\ tok.calls[1].refreshToken = tok.row.refresh_token
    /\ tok.made = Cardinality(TokSlots)

\* both went through: the row was upserted twice from the same refresh token
C34_ReachedBothRefreshed ==
    /\ \A k \in TokSlots :
          /\ tok.calls[k].pc = "done" /\ tok.calls[k].source = "refresh"
          /\ tok.calls[k].exchanges = 1 /\ tok.calls[k].writes = 1
    /\ tok.made = Cardinality(TokSlots) /\ tok.upserts = 1


(***************************************************************************)
(* C35. After /oauth/callback has stored a new credential, and with no     *)
(* refresh in flight, every getOuraAccessToken call of the instance        *)
(* returns the access token the row of oura_oauth_tokens holds: never an   *)
(* older cached token, never the static OURA_PAT.                          *)
(***************************************************************************)
\* call k returns a token in this step
Returns(k) ==
    /\ tok'.calls[k].pc = "done" /\ tok'.calls[k].outcome = "ok"
    /\ \/ tok.calls[k].pc \in {"select", "exchange", "upsert"}
       \/ /\ tok.calls[k].pc \in {"idle", "done"}
          /\ tok'.made > tok.made
          /\ tok'.made = tok.made + 1 => k = FirstFree(tok)

C35_CacheCoherent ==
    [][\A k \in TokSlots :
          (Returns(k) /\ tok.upserts >= 1 /\ Refreshing(tok) \ {k} = {}) =>
             tok'.calls[k].token = tok'.row.access_token]_vars

\* what the code guarantees: a call that reads the row returns the row's
\* token or, when the row has no usable token, OURA_PAT; a call answered by
\* the cache returns whatever was cached, for as long as the entry is fresh
C35_StoreReadCoherent ==
    [][\A k \in TokSlots :
          (Returns(k) /\ tok.upserts >= 1 /\ Refreshing(tok) \ {k} = {}) =>
             \/ tok'.calls[k].token = tok'.row.access_token
             \/ tok'.calls[k].source = "cache" /\ tok'.calls[k].token = tok.cache.token
             \/ tok'.calls[k].source = "pat" /\ tok'.calls[k].token = PatToken]_vars

\* the callback has stored a token, no call is in flight, and the cache still
\* holds another token (OURA_PAT, cached when there was no row) and is fresh:
\* the next call returns it
C35_Reached ==
    /\ tok.upserts = 1 /\ tok.row.access_token # 0
    /\ \A k \in TokSlots : tok.calls[k].pc \in {"idle", "done"}
    /\ CacheFresh(tok.cache, tok.clock)
    /\ tok.cache.token # tok.row.access_token
    /\ tok.made < MaxTokCalls


(***************************************************************************)
(* The catalog's cache entry (SpecCatalog).                                *)
(***************************************************************************)
\* C36: the KV entry never holds an empty resource list, and a call that
\* follows a call whose fetch was answered non-2xx, with an unparsable body
\* or with no listed path is not served from KV with an empty list.
C36_NoEmptyListCached ==
    /\ cat.kv.held => cat.kv.list # <<>>
    /\ ~(cat.call.pc = "returned" /\ cat.call.read = "hit"
           /\ cat.call.result = <<>>)

\* what the code keeps: a fetch answered non-2xx writes nothing to KV, and
\* the entry written is the list built from the body of a 2xx answer
C36_NonOkNotCached ==
    [][/\ (cat.call.pc = "fetch" /\ cat'.call.res = "nonok") => cat'.kv = cat.kv
       /\ (cat.call.pc = "put" /\ cat'.call.pc = "returned" /\ cat'.kv # cat.kv) =>
             cat'.kv = [held |-> TRUE, list |-> BuildResources(cat.call.doc)]
      ]_vars

\* a call was served the empty list from KV after a call whose 2xx answer
\* had an unparsable body stored it
C36_Reached ==
    /\ cat.call.pc = "returned" /\ cat.call.read = "hit"
    /\ cat.call.result = <<>>
    /\ cat.loads >= 2

\* after a non-2xx answer the next call fetched again
C36_ReachedRefetch ==
    /\ cat.call.pc = "fetch" /\ cat.call.read = "miss" /\ cat.loads >= 2
    /\ ~cat.kv.held


(***************************************************************************)
(* /oauth/start without a client ID (SpecHttp).                            *)
(***************************************************************************)
\* the step in which a /oauth/start request is answered
StartAnswered == http.route = "start" /\ http.pc = "store" /\ http'.pc = "done"

\* C37: a /oauth/start request answered 500 while OURA_CLIENT_ID is not set
\* leaves the number of pending-state rows as it was.
C37_FailedStartLeavesStore ==
    [][(StartAnswered /\ ~http.clientId /\ http'.status = 500) =>
          http'.states = http.states]_vars

\* what the code keeps: the INSERT is awaited before the client ID is looked
\* at, so every answer of /oauth/start (302 or 500) follows one store write,
\* and no row is added only when that write threw
C37_InsertBeforeClientIdTest ==
    [][StartAnswered =>
          /\ http'.writes = http.writes + 1
          /\ http'.states \in {http.states, http.states + 1}
          /\ http'.status = 302 => (http.clientId /\ http'.states = http.states + 1)
      ]_vars

\* /oauth/start was answered 500 for the missing client ID and its row is in
\* the store
C37_Reached ==
    /\ http.route = "start" /\ http.pc = "done" /\ http.status = 500
    /\ ~http.clientId
    /\ http.states = 1 /\ http.served = 1


(***************************************************************************)
(* A failed code exchange (SpecAuth).                                      *)
(***************************************************************************)
\* the step in which the code exchange of the callback in hand throws
ExchangeFails == oauth.call.pc = "exchange" /\ oauth'.call.outcome = "threw"

\* C38: when the code exchange of a callback that found a valid state fails,
\* the credential record is what it was before the callback and the state's
\* row is gone; a later callback whose state an earlier callback has found
\* ends with InvalidState from the lookup.
C38_FailedExchangeConsumes ==
    [][/\ ExchangeFails =>
            /\ oauth.call.found /\ ~StateExpired(oauth.call.age)
            /\ oauth'.cred = oauth.cred
            /\ oauth'.cred = oauth.call.credBefore
            /\ ~oauth'.call.wrote
            /\ oauth.call.state \notin DOMAIN oauth'.states
            /\ oauth.call.state \in oauth'.consumed
       /\ (oauth.call.pc = "lookup" /\ oauth'.call.pc # "lookup"
             /\ oauth.call.state \in oauth.consumed) =>
            /\ oauth'.call.pc = "done"
            /\ oauth'.call.outcome = "InvalidState"
            /\ oauth'.cred = oauth.cred
      ]_vars

\* the exchange of a callback for s1 threw while a credential was stored
C38_Witness ==
    /\ oauth.call.outcome = "threw" /\ oauth.call.state = "s1"
    /\ oauth.cred # NoCred /\ oauth.cred = oauth.call.credBefore
    /\ "s1" \notin DOMAIN oauth.states

\* a callback for s1 ended with InvalidState after an earlier one for s1 had
\* found the state unexpired and failed in the exchange (no callback for s1
\* succeeded, and within the TTL none found it expired)
C38_WitnessLater ==
    /\ oauth.call.outcome = "InvalidState" /\ oauth.call.state = "s1"
    /\ "s1" \in oauth.consumed /\ oauth.okCount["s1"] = 0
    /\ oauth.clock <= StateTtlMinutes
    /\ oauth.cred # NoCred


(***************************************************************************)
(* The window of /backfill (SpecHttp).                                     *)
(***************************************************************************)
\* the request in hand is a /backfill request that has passed the limiter
BackfillDecided ==
    /\ http.route = "backfill" /\ http.limiter = 2
    /\ http.pc \in {"sync", "done"} /\ http.status # 429

\* C40: every sync started by /backfill has totalDays >= 1, offsetDays >= 0
\* and offsetDays + totalDays <= 3650, whatever days and offset_days are;
\* any other request is answered 400 and starts no sync.
C40_WindowInRange ==
    BackfillDecided =>
        IF http.syncs = 0 THEN http.status = 400
        ELSE /\ http.started.totalDays >= 1
             /\ http.started.offsetDays >= 0
             /\ http.started.offsetDays + http.started.totalDays <= MaxBackfillDays

\* what the code keeps: totalDays and offsetDays are each within
\* 0..MAX_BACKFILL_DAYS, totalDays is positive, and their sum is within the
\* cap when days is a positive finite number or is not given; a days value
\* that is zero, negative or not a number gives 730 days whatever the offset
C40_WindowBounds ==
    BackfillDecided =>
        IF http.syncs = 0 THEN http.status = 400
        ELSE LET days == http.req.days IN
             /\ http.syncs = 1
             /\ http.started.totalDays \in 1..MaxBackfillDays
             /\ http.started.offsetDays \in 0..MaxBackfillDays
             /\ (~days.given \/ (days.finite /\ days.n > 0)) =>
                    http.started.offsetDays + http.started.totalDays
                        <= MaxBackfillDays
             /\ (days.given /\ ~(days.finite /\ days.n > 0)) =>
                    http.started.totalDays = DefaultBackfillDays

\* /backfill?days=0&offset_days=3650 started a sync of 730 days that begins
\* 3650 days back
C40_Reached ==
    /\ BackfillDecided /\ http.syncs = 1
    /\ http.req.days = Given(0)
    /\ http.started = [totalDays |-> DefaultBackfillDays,
                       offsetDays |-> MaxBackfillDays]

\* /backfill?offset_days=3650 without days was answered 400
C40_ReachedRejected ==
    /\ BackfillDecided /\ http.syncs = 0 /\ http.status = 400
    /\ http.req.days = Absent /\ http.req.offset = Given(MaxBackfillDays)


(***************************************************************************)
(* Statistics after the sync (SpecJob).                                    *)
(***************************************************************************)
\* the step in which a SELECT of updateTableStats is answered
StatsRead == http.job.stats = "query" /\ http'.job.asked = http.job.asked + 1

\* C39: in every pairing of a sync with a statistics update (scheduled,
\* background backfill, synchronous backfill) the statistics are read from
\* the store only after the sync has committed all its writes.
C39_StatsAfterSync ==
    [][StatsRead => http.job.sync # "running"]_vars

\* what the code keeps: the synchronous branch of /backfill reads the
\* statistics after syncData has returned, and skips them when it threw; in
\* the other two pairings the first SELECT is on its way when the sync starts
C39_SynchronousStatsAfterSync ==
    [][/\ (StatsRead /\ http.job.mode = "synchronous") =>
              http.job.sync = "done" /\ http.job.left = 0
       /\ (http'.job.runs # http.job.runs /\ http'.job.mode # "synchronous") =>
              http'.job.sync = "running" /\ http'.job.stats = "query"
       /\ (http.job.mode = "synchronous" /\ http'.job.sync = "threw") =>
              http'.job.stats = "skipped"
      ]_vars

\* the scheduled pairing is over: the sync committed its batches, and the
\* statistics written are those of the store before the first of them
C39_Reached ==
    /\ http.job.mode = "scheduled" /\ http.job.runs = 1
    /\ http.job.sync = "done" /\ http.job.stats = "done"
    /\ http.job.rows = MaxJobWrites
    /\ http.job.counted = [i \in 1..StatsQueries |-> 0]

\* the synchronous pairing is over and the statistics count every batch
C39_ReachedSynchronous ==
    /\ http.job.mode = "synchronous" /\ http.job.runs = 1
    /\ http.job.sync = "done" /\ http.job.stats = "done"
    /\ http.job.rows = MaxJobWrites
    /\ http.job.counted = [i \in 1..StatsQueries |-> MaxJobWrites]

====
